---- MODULE Spec2Model ----
(***************************************************************************)
(* River forest construction, tree cleanup and river/boundary conflation   *)
(* of workflow/hydrography.py, and simplify_and_prune, triangulate,        *)
(* elevate and values_from_raster of workflow/hilev.py.                    *)
(*                                                                         *)
(* Coordinates are integer pairs <<x, y>>.  Tolerances and lengths are in  *)
(* hundredths of a coordinate unit (tol = 1 is 0.01, tol = 200 is 2.0), so *)
(* "distance < tol" is the exact test  d2 * 10000 < tol * tol  on the      *)
(* squared distance d2.                                                    *)
(***************************************************************************)
EXTENDS Integers, Sequences, FiniteSets, TLC

VARIABLES reaches, segment, parent, children, rivers, pc, op, pre,
          hucs, tree_i, result, at_phase2,
          args, mesh_points, mesh_tris, returned, reads, needs_refine

vars == <<reaches, segment, parent, children, rivers, pc, op, pre,
          hucs, tree_i, result, at_phase2,
          args, mesh_points, mesh_tris, returned, reads, needs_refine>>

\* the variables of the meshing functions of hilev.py
mesh == <<args, mesh_points, mesh_tris, returned, reads, needs_refine>>

\* no meshing function has been called
NoMesh ==
    /\ args = <<>>
    /\ mesh_points = <<>>
    /\ mesh_tris = <<>>
    /\ returned = <<>>
    /\ reads = {}
    /\ needs_refine = <<>>

(* ----------------------------- bounds ---------------------------------- *)

\* longest list of raw reaches handed to make_global_tree
MaxReaches == 3

\* largest number of river trees handed to snap
MaxTrees == 2

(* --------------------------- geometry ---------------------------------- *)

D2(p, q) == (p[1] - q[1]) * (p[1] - q[1]) + (p[2] - q[2]) * (p[2] - q[2])

\* distance(p, q) < tol
DistLT(p, q, tol) == D2(p, q) * 10000 < tol * tol

\* distance(p, q) <= tol
DistLE(p, q, tol) == D2(p, q) * 10000 <= tol * tol

\* floor(100 * sqrt(d)) for the squared edge lengths the model meets
SqrtTab[d \in 0..50] == CHOOSE r \in 0..720 : r * r <= d * 10000 /\ (r + 1) * (r + 1) > d * 10000

RECURSIVE SegLength(_)
\* LineString.length, in hundredths
SegLength(s) ==
    IF Len(s) < 2 THEN 0
    ELSE SqrtTab[D2(s[1], s[2])] + SegLength(Tail(s))

First(s) == s[1]

Last(s) == s[Len(s)]

Ids(n) == [i \in 1..n |-> i]

\* numerator of the squared distance of p to the segment a-b, over the
\* denominator DPDen(a, b)
DPDen(a, b) == IF D2(a, b) = 0 THEN 1 ELSE D2(a, b)

DPNum(p, a, b) ==
    LET L == D2(a, b)
        t == (p[1] - a[1]) * (b[1] - a[1]) + (p[2] - a[2]) * (b[2] - a[2])
        cr == (p[1] - a[1]) * (b[2] - a[2]) - (p[2] - a[2]) * (b[1] - a[1])
    IN  IF L = 0 THEN D2(p, a)
        ELSE IF t <= 0 THEN D2(p, a) * L
        ELSE IF t >= L THEN D2(p, b) * L
        ELSE cr * cr

RECURSIVE LineSimplify(_, _)
\* LineString.simplify(tol): Douglas-Peucker, the endpoints are kept, the
\* interior vertex farthest from the chord is kept iff it is farther than tol
LineSimplify(s, tol) ==
    IF Len(s) <= 2 THEN s
    ELSE LET a == s[1]
             b == s[Len(s)]
             inner == 2..(Len(s) - 1)
             far == CHOOSE i \in inner :
                      /\ \A k \in inner : DPNum(s[k], a, b) <= DPNum(s[i], a, b)
                      /\ \A k \in inner : k < i => DPNum(s[k], a, b) < DPNum(s[i], a, b)
         IN  IF DPNum(s[far], a, b) * 10000 <= tol * tol * DPDen(a, b)
             THEN <<a, b>>
             ELSE LineSimplify(SubSeq(s, 1, far), tol)
                    \o Tail(LineSimplify(SubSeq(s, far, Len(s)), tol))

(* ------------------------------ Tree ----------------------------------- *)

\* a forest value: the nodes' segments, parent links (0 is None), ordered
\* child lists, and the list of trees (root nodes)
Forest(sg, pa, ch, rv) == [segment |-> sg, parent |-> pa, children |-> ch, rivers |-> rv]

RemoveFirst(s, x) ==
    LET i == CHOOSE k \in 1..Len(s) : s[k] = x /\ \A m \in 1..(k - 1) : s[m] # x
    IN  SubSeq(s, 1, i - 1) \o SubSeq(s, i + 1, Len(s))

\* Tree.addChild(node): node is appended to the children and gets self as parent
addChild(f, p, n) ==
    [f EXCEPT !.children[p] = Append(@, n), !.parent[n] = p]

\* Tree.remove(): the node is taken out of its parent's children; a node
\* without parent (a root) is in no child list and stays the tree's root
remove(f, n) ==
    IF f.parent[n] = 0 THEN f
    ELSE [f EXCEPT !.children[f.parent[n]] = RemoveFirst(@, n)]

RECURSIVE preOrder(_, _)
RECURSIVE preOrderAll(_, _)
\* Tree.preOrder(): the node, then each child's subtree in child order
preOrder(ch, n) == <<n>> \o preOrderAll(ch, ch[n])

preOrderAll(ch, ns) ==
    IF ns = <<>> THEN <<>>
    ELSE preOrder(ch, ns[1]) \o preOrderAll(ch, Tail(ns))

\* Tree.leaf_nodes(): the nodes of preOrder without children
leaf_nodes(ch, n) == SelectSeq(preOrder(ch, n), LAMBDA x : ch[x] = <<>>)

Range(s) == {s[i] : i \in DOMAIN s}

\* the nodes of the forest: everything reachable from a listed root
ForestNodes(f) == Range(preOrderAll(f.children, f.rivers))

\* workflow.tree.is_consistent: every child ends where its parent starts
is_consistent(f, root) ==
    \A n \in Range(preOrder(f.children, root)) :
        \A i \in 1..Len(f.children[n]) :
            Last(f.segment[f.children[n][i]]) = First(f.segment[n])

(* ------------------------- make_global_tree ---------------------------- *)

\* kdtree.query_ball_point(n.segment.coords[-1], tol): the indices of the
\* reaches whose first coordinate is within tol of the end of reach j
closest(rs, j, tol) ==
    SelectSeq(Ids(Len(rs)), LAMBDA c : DistLE(First(rs[c]), Last(rs[j]), tol))

\* dot(c) > dot(d) for the unit tangents: the candidate's first edge against
\* tangent t of the last edge of the reach (|t| is common to both sides)
DotGT(rs, t, c, d) ==
    LET oc == <<rs[c][2][1] - rs[c][1][1], rs[c][2][2] - rs[c][1][2]>>
        od == <<rs[d][2][1] - rs[d][1][1], rs[d][2][2] - rs[d][1][2]>>
        nc == oc[1] * t[1] + oc[2] * t[2]
        nd == od[1] * t[1] + od[2] * t[2]
        lc == oc[1] * oc[1] + oc[2] * oc[2]
        ld == od[1] * od[1] + od[2] * od[2]
    IN  IF nc >= 0 /\ nd < 0 THEN TRUE
        ELSE IF nc < 0 /\ nd >= 0 THEN FALSE
        ELSE IF nc >= 0 THEN nc * nc * ld > nd * nd * lc
        ELSE nc * nc * ld < nd * nd * lc

\* the candidate with the smallest dot product
WinnerLeast(rs, j, cl) ==
    LET s == rs[j]
        t == <<s[Len(s)][1] - s[Len(s) - 1][1], s[Len(s)][2] - s[Len(s) - 1][2]>>
        i == CHOOSE k \in 1..Len(cl) : \A m \in 1..Len(cl) : ~DotGT(rs, t, cl[k], cl[m])
    IN  cl[i]

\* closest[np.argmax(dots)]: the first candidate no other candidate beats
Winner(rs, j, cl) ==
    LET s == rs[j]
        t == <<s[Len(s)][1] - s[Len(s) - 1][1], s[Len(s)][2] - s[Len(s) - 1][2]>>
        i == CHOOSE k \in 1..Len(cl) :
               /\ \A m \in 1..Len(cl) : ~DotGT(rs, t, cl[m], cl[k])
               /\ \A m \in 1..(k - 1) : DotGT(rs, t, cl[k], cl[m])
    IN  cl[i]

\* MatchNode with the link of a single match made the wrong way round
MatchNodeReversed(f, rs, j, tol) ==
    LET cl == closest(rs, j, tol)
    IN  IF Len(cl) > 1 THEN addChild(f, Winner(rs, j, cl), j)
        ELSE IF Len(cl) = 0 THEN [f EXCEPT !.rivers = Append(@, j)]
        ELSE addChild(f, j, cl[1])

\* one pass of the loop over the nodes: node j is made a root, or a child
MatchNode(f, rs, j, tol) ==
    LET cl == closest(rs, j, tol)
    IN  IF Len(cl) > 1 THEN addChild(f, Winner(rs, j, cl), j)
        ELSE IF Len(cl) = 0 THEN [f EXCEPT !.rivers = Append(@, j)]
        ELSE addChild(f, cl[1], j)

RECURSIVE MatchFrom(_, _, _, _)
MatchFrom(f, rs, j, tol) ==
    IF j > Len(rs) THEN f
    ELSE MatchFrom(MatchNode(f, rs, j, tol), rs, j + 1, tol)

make_global_tree(rs, tol) ==
    MatchFrom(Forest([i \in 1..Len(rs) |-> rs[i]],
                     [i \in 1..Len(rs) |-> 0],
                     [i \in 1..Len(rs) |-> <<>>],
                     <<>>),
              rs, 1, tol)

(* --------------------------- tree cleanup ------------------------------ *)

\* the result of an operation that may raise: the forest as it was left,
\* and whether an exception came out of the call
Outcome(f, r) == [f |-> f, raised |-> r]

RECURSIVE SimplifyNodes(_, _, _)
SimplifyNodes(f, ns, tol) ==
    IF ns = <<>> THEN f
    ELSE SimplifyNodes([f EXCEPT !.segment[ns[1]] = LineSimplify(@, tol)], Tail(ns), tol)

\* a simplify that also moves the root's segment one unit along x
simplifyShifting(f, root, tol) ==
    [SimplifyNodes(f, preOrder(f.children, root), tol) EXCEPT
        !.segment[root] = [i \in 1..Len(@) |-> <<@[i][1] + 1, @[i][2]>>]]

\* simplify(tree, tol): every node's segment is replaced by its simplified form
simplify(f, root, tol) == SimplifyNodes(f, preOrder(f.children, root), tol)

RECURSIVE RehomeKeepsEnd(_, _, _)
\* Rehome without the rewrite of the child's last coordinate
RehomeKeepsEnd(f, n, cs) ==
    IF cs = <<>> THEN f
    ELSE RehomeKeepsEnd(addChild(f, f.parent[n], cs[1]), n, Tail(cs))

RECURSIVE Rehome(_, _, _)
\* the loop over node.children of merge: each child gets the first coordinate
\* of the node's parent as its last coordinate and is added to that parent
Rehome(f, n, cs) ==
    IF cs = <<>> THEN f
    ELSE LET c == cs[1]
             p == f.parent[n]
             moved == [f EXCEPT !.segment[c] =
                         SubSeq(@, 1, Len(@) - 1) \o <<First(f.segment[p])>>]
         IN  Rehome(addChild(moved, p, c), n, Tail(cs))

\* the body of merge's loop for one node; reading node.parent.segment of a
\* node without parent raises
MergeNode(o, n, tol) ==
    IF o.raised THEN o
    ELSE IF SegLength(o.f.segment[n]) < tol
         THEN IF o.f.children[n] # <<>> /\ o.f.parent[n] = 0
              THEN Outcome(o.f, TRUE)
              ELSE Outcome(remove(Rehome(o.f, n, o.f.children[n]), n), FALSE)
         ELSE o

RECURSIVE MergeNodesOnce(_, _, _)
\* a loop of merge that ends with the first node it removes
MergeNodesOnce(o, ns, tol) ==
    IF ns = <<>> THEN o
    ELSE IF MergeNode(o, ns[1], tol) # o THEN MergeNode(o, ns[1], tol)
         ELSE MergeNodesOnce(o, Tail(ns), tol)

RECURSIVE MergeNodes(_, _, _)
MergeNodes(o, ns, tol) ==
    IF ns = <<>> THEN o
    ELSE MergeNodes(MergeNode(o, ns[1], tol), Tail(ns), tol)

\* merge that also takes a short root without children out of the list of trees
mergeDropsShortRoot(f, root, tol) ==
    LET o == MergeNodes(Outcome(f, FALSE), preOrder(f.children, root), tol)
    IN  IF ~o.raised /\ o.f.children[root] = <<>> /\ SegLength(o.f.segment[root]) < tol
        THEN Outcome([o.f EXCEPT !.rivers = SelectSeq(@, LAMBDA r : r # root)], FALSE)
        ELSE o

\* merge over the nodes from the leaves up
mergeBottomUp(f, root, tol) ==
    LET ns == preOrder(f.children, root)
    IN  MergeNodes(Outcome(f, FALSE), [i \in 1..Len(ns) |-> ns[Len(ns) + 1 - i]], tol)

\* merge(tree, tol), over list(tree.preOrder()) taken when the call starts
merge(f, root, tol) == MergeNodes(Outcome(f, FALSE), preOrder(f.children, root), tol)

RECURSIVE PruneLeavesSkipping(_, _, _)
\* a loop over the leaves that misses the leaf after each one it removes
PruneLeavesSkipping(f, ls, tol) ==
    IF ls = <<>> THEN f
    ELSE IF SegLength(f.segment[ls[1]]) < tol
         THEN PruneLeavesSkipping(remove(f, ls[1]), IF Len(ls) = 1 THEN <<>> ELSE Tail(Tail(ls)), tol)
         ELSE PruneLeavesSkipping(f, Tail(ls), tol)

RECURSIVE PruneLeaves(_, _, _)
PruneLeaves(f, ls, tol) ==
    IF ls = <<>> THEN f
    ELSE PruneLeaves(IF SegLength(f.segment[ls[1]]) < tol THEN remove(f, ls[1]) ELSE f,
                     Tail(ls), tol)

\* prune that goes on upward: a root left as a short leaf is dropped as well
pruneUpward(f, root, tol) ==
    LET g == PruneLeaves(f, leaf_nodes(f.children, root), tol)
    IN  IF g.children[root] = <<>> /\ SegLength(g.segment[root]) < tol
        THEN [g EXCEPT !.rivers = SelectSeq(@, LAMBDA r : r # root)]
        ELSE g

\* prune(tree, prune_tol): every short leaf of tree.leaf_nodes() is removed
prune(f, root, tol) == PruneLeaves(f, leaf_nodes(f.children, root), tol)

\* None as a tolerance
None == 0 - 1

RECURSIVE SimplifyTrees(_, _, _)
SimplifyTrees(f, ts, tol) ==
    IF ts = <<>> THEN f
    ELSE SimplifyTrees(simplify(f, ts[1], tol), Tail(ts), tol)

\* the body of cleanup's second loop for one tree
CleanTree(o, t, prune_tol, merge_tol) ==
    IF o.raised THEN o
    ELSE LET m == IF merge_tol # None THEN merge(o.f, t, merge_tol) ELSE o
         IN  IF m.raised THEN m
             ELSE IF merge_tol # prune_tol /\ prune_tol # None
                  THEN Outcome(prune(m.f, t, prune_tol), FALSE)
                  ELSE m

RECURSIVE CleanTrees(_, _, _, _)
CleanTrees(o, ts, prune_tol, merge_tol) ==
    IF ts = <<>> THEN o
    ELSE CleanTrees(CleanTree(o, ts[1], prune_tol, merge_tol), Tail(ts), prune_tol, merge_tol)

\* cleanup(rivers, simp_tol, prune_tol, merge_tol)
cleanup(f, simp_tol, prune_tol, merge_tol) ==
    LET s == IF simp_tol # None THEN SimplifyTrees(f, f.rivers, simp_tol) ELSE f
    IN  CleanTrees(Outcome(s, FALSE), s.rivers, prune_tol, merge_tol)

(* ----------------------- geometry of polylines ------------------------- *)

\* a coordinate that is not on the integer grid
OffGrid == <<0 - 2, 0 - 2>>

\* the point of edge a-b nearest to p: its squared distance num / den, its
\* position tn / td along the edge, and the point itself (OffGrid when the
\* foot of the perpendicular is no grid point)
EdgeNear(p, a, b) ==
    LET L == D2(a, b)
        t == (p[1] - a[1]) * (b[1] - a[1]) + (p[2] - a[2]) * (b[2] - a[2])
        cr == (p[1] - a[1]) * (b[2] - a[2]) - (p[2] - a[2]) * (b[1] - a[1])
    IN  IF L = 0 \/ t <= 0 THEN [num |-> D2(p, a), den |-> 1, tn |-> 0, td |-> 1, pt |-> a]
        ELSE IF t >= L THEN [num |-> D2(p, b), den |-> 1, tn |-> 1, td |-> 1, pt |-> b]
        ELSE [num |-> cr * cr, den |-> L, tn |-> t, td |-> L,
              pt |-> IF (t * (b[1] - a[1])) % L = 0 /\ (t * (b[2] - a[2])) % L = 0
                     THEN <<a[1] + (t * (b[1] - a[1])) \div L, a[2] + (t * (b[2] - a[2])) \div L>>
                     ELSE OffGrid]

\* the edge of the line on which the point nearest to p lies (the first one
\* along the line when several are equally near)
EdgesNear(line, p) == [k \in 1..(Len(line) - 1) |-> EdgeNear(p, line[k], line[k + 1])]

\* the first of the nearest among the points ns, one for each edge
Nearest(ns) ==
    LET nearer(j, k) == ns[j].num * ns[k].den < ns[k].num * ns[j].den
    IN  CHOOSE k \in 1..Len(ns) : /\ \A j \in 1..Len(ns) : ~nearer(j, k)
                                  /\ \A j \in 1..Len(ns) : j < k => nearer(k, j)

NearestEdge(line, p) == Nearest(EdgesNear(line, p))

NearestOf(ns) == ns[Nearest(ns)]

LineNear(line, p) == NearestOf(EdgesNear(line, p))

\* workflow.utils.nearest_point(line, point)
nearest_point(line, p) == LineNear(line, p).pt

\* the point n is nearer than tol
Within(n, tol) == n.num * 10000 < tol * tol * n.den

\* distance(nearest_point(line, p), p) < tol
LineDistLT(line, p, tol) == Within(LineNear(line, p), tol)

\* the place of the point n of the edge k: the fraction tn / td of that edge,
\* or the start of the next edge
KeyOf(k, n) ==
    IF n.tn = n.td THEN [k |-> k + 1, tn |-> 0, td |-> 1]
    ELSE [k |-> k, tn |-> n.tn, td |-> n.td]

\* LineString.project(Point(p)): where along the line the nearest point lies,
\* as vertex index k and fraction tn / td of the edge that starts there
project(line, p) == KeyOf(NearestEdge(line, p), LineNear(line, p))

KeyLT(x, y) == x.k < y.k \/ (x.k = y.k /\ x.tn * y.td < y.tn * x.td)

\* workflow.utils.in_neighborhood(Point(p), line, tol): the bounding boxes,
\* grown by tol, meet
in_neighborhood(p, line, tol) ==
    \E i \in 1..Len(line), j \in 1..Len(line), k \in 1..Len(line), m \in 1..Len(line) :
        /\ \A n \in 1..Len(line) : /\ line[i][1] <= line[n][1] /\ line[n][1] <= line[j][1]
                                   /\ line[k][2] <= line[n][2] /\ line[n][2] <= line[m][2]
        /\ (line[i][1] - p[1]) * 100 <= tol
        /\ (p[1] - line[j][1]) * 100 <= tol
        /\ (line[k][2] - p[2]) * 100 <= tol
        /\ (p[2] - line[m][2]) * 100 <= tol

\* workflow.utils.close(p, q): the same coordinate
close(p, q) == p = q

RECURSIVE InsertByKeyDescending(_, _)
InsertByKeyDescending(sorted, item) ==
    IF sorted = <<>> THEN <<item>>
    ELSE IF KeyLT(sorted[1].key, item.key) THEN <<item>> \o sorted
    ELSE <<sorted[1]>> \o InsertByKeyDescending(Tail(sorted), item)

RECURSIVE InsertByKey(_, _)
\* one step of a stable sort: the item goes behind every item whose key is
\* not larger than its own
InsertByKey(sorted, item) ==
    IF sorted = <<>> THEN <<item>>
    ELSE IF KeyLT(item.key, sorted[1].key) THEN <<item>> \o sorted
    ELSE <<sorted[1]>> \o InsertByKey(Tail(sorted), item)

RECURSIVE SortByKey(_, _)
\* sorted(items, key = ...), stable
SortByKey(sorted, items) ==
    IF items = <<>> THEN sorted
    ELSE SortByKey(InsertByKey(sorted, items[1]), Tail(items))

(* --------------------------- split-form HUCs --------------------------- *)

\* hucs: the pool of segments by handle, the boundary and intersection
\* components (lists of handles), the polygons (lists of components, counted
\* through boundaries then intersections), and for each handle the handle of
\* the segment it was cut from
HUCs(sg, bd, ix, gn, og) ==
    [segments |-> sg, boundaries |-> bd, intersections |-> ix, gons |-> gn, origin |-> og]

\* itertools.chain(hucs.boundaries.items(), hucs.intersections.items())
Components(H) == H.boundaries \o H.intersections

RECURSIVE Flatten(_)
Flatten(ss) == IF ss = <<>> THEN <<>> ELSE ss[1] \o Flatten(Tail(ss))

\* the handles of polygon g's ring, in order
RingHandles(H, g) == Flatten([i \in 1..Len(H.gons[g]) |-> Components(H)[H.gons[g][i]]])

\* the ring closes: consecutive segments share their joining coordinate and
\* the last segment ends where the first starts
RingCloses(H, g) ==
    LET r == RingHandles(H, g)
    IN  /\ r # <<>>
        /\ \A i \in 1..(Len(r) - 1) : Last(H.segments[r[i]]) = First(H.segments[r[i + 1]])
        /\ Last(H.segments[r[Len(r)]]) = First(H.segments[r[1]])

\* list(hucs.polygons()) does not raise
polygons_ok(H) == \A g \in 1..Len(H.gons) : RingCloses(H, g)

\* component.add_many(new_handles) on component c
add_many(H, c, hs) ==
    IF c <= Len(H.boundaries)
    THEN [H EXCEPT !.boundaries[c] = @ \o hs]
    ELSE [H EXCEPT !.intersections[c - Len(H.boundaries)] = @ \o hs]

(* ------------------ Phase 1: snap_polygon_endpoints -------------------- *)

\* the coordinates of the kd-tree: the last coordinate of every segment of
\* tree.dfs(), then the first coordinate of every leaf, tree after tree
RiverEndpoints(f) ==
    LET all == preOrderAll(f.children, f.rivers)
        lvs == SelectSeq(all, LAMBDA n : f.children[n] = <<>>)
    IN  [i \in 1..Len(all) |-> Last(f.segment[all[i]])]
          \o [i \in 1..Len(lvs) |-> First(f.segment[lvs[i]])]

\* kdtree.query(p): the nearest of the coordinates (the first one in the
\* list when several are equally near)
query(coords, p) ==
    LET i == CHOOSE k \in 1..Len(coords) :
               /\ \A j \in 1..Len(coords) : D2(coords[j], p) >= D2(coords[k], p)
               /\ \A j \in 1..(k - 1) : D2(coords[j], p) > D2(coords[k], p)
    IN  coords[i]

\* the loop body: an endpoint of the segment that has a river endpoint
\* within tol is moved onto the nearest one
SnapSegEndsAlways(seg, coords, tol) ==
    [[seg EXCEPT ![1] = query(coords, First(seg))]
        EXCEPT ![Len(seg)] = query(coords, Last(seg))]

SnapSegEnds(seg, coords, tol) ==
    LET q0 == query(coords, First(seg))
        q1 == query(coords, Last(seg))
        s0 == IF DistLT(q0, First(seg), tol) THEN [seg EXCEPT ![1] = q0] ELSE seg
    IN  IF DistLT(q1, Last(seg), tol) THEN [s0 EXCEPT ![Len(seg)] = q1] ELSE s0

snap_polygon_endpoints(H, f, tol) ==
    [H EXCEPT !.segments =
        [h \in 1..Len(H.segments) |-> SnapSegEnds(H.segments[h], RiverEndpoints(f), tol)]]

(* ---------------------- Phase 2: snap_endpoints ------------------------ *)

NoPoint == <<>>

\* _snap_and_cut(point, line, tol): the point of the line nearest to the
\* point when that is nearer than tol, unless the point is a vertex of the line
\* the result of _snap_and_cut for the nearest point n of the line
CutAt(p, line, tol, n) ==
    IF in_neighborhood(p, line, tol) /\ Within(n, tol)
    THEN IF n.num = 0 /\ \E i \in 1..Len(line) : close(p, line[i])
         THEN NoPoint
         ELSE n.pt
    ELSE NoPoint

snap_and_cut(p, line, tol) == CutAt(p, line, tol, LineNear(line, p))

RECURSIVE FirstHit(_, _, _, _)
\* the loop over component.items(), up to its break: the first handle whose
\* segment gives a new coordinate, and that coordinate
FirstHit(H, hs, p, tol) ==
    IF hs = <<>> THEN [h |-> 0, p |-> NoPoint]
    ELSE IF snap_and_cut(p, H.segments[hs[1]], tol) # NoPoint
         THEN [h |-> hs[1], p |-> snap_and_cut(p, H.segments[hs[1]], tol)]
         ELSE FirstHit(H, Tail(hs), p, tol)

RECURSIVE DropFront(_, _)
\* while len(coords) > 2 and coords[1] is nearer to new_coord than coords[0]
DropFront(coords, new) ==
    IF Len(coords) > 2 /\ D2(new, coords[2]) < D2(new, coords[1])
    THEN DropFront(Tail(coords), new)
    ELSE coords

\* a second stage that removes no point
DropBackNone(coords, new) == coords

RECURSIVE DropBack(_, _)
DropBack(coords, new) ==
    IF Len(coords) > 2 /\ D2(new, coords[Len(coords) - 1]) < D2(new, coords[Len(coords)])
    THEN DropBack(SubSeq(coords, 1, Len(coords) - 1), new)
    ELSE coords

\* segment.coords[endpoint] for endpoint 0 or -1
EndCoord(seg, e) == IF e = 0 THEN First(seg) ELSE Last(seg)

\* a stage that moves the endpoint and forgets the entry of to_add
MoveEndNoEntry(st, hit, c, e, n) ==
    LET cut == IF e = 0 THEN DropFront(st.river, hit.p) ELSE DropBack(st.river, hit.p)
        river == IF e = 0 THEN [cut EXCEPT ![1] = hit.p] ELSE [cut EXCEPT ![Len(cut)] = hit.p]
    IN  IF hit.h = 0 THEN st
        ELSE [river |-> river, to_add |-> st.to_add]

\* the body of the if of a stage: closer points are removed, the endpoint
\* is moved and the entry is appended to to_add
MoveEnd(st, hit, c, e, n) ==
    LET cut == IF e = 0 THEN DropFront(st.river, hit.p) ELSE DropBack(st.river, hit.p)
        river == IF e = 0 THEN [cut EXCEPT ![1] = hit.p] ELSE [cut EXCEPT ![Len(cut)] = hit.p]
    IN  IF hit.h = 0 THEN st
        ELSE [river |-> river,
              to_add |-> Append(st.to_add, [h |-> hit.h, c |-> c, e |-> e, n |-> n])]

\* stages of which only the first moves an endpoint
StageFirstEndOnly(st, H, c, e, n, tol) ==
    IF e = 0 THEN MoveEnd(st, FirstHit(H, Components(H)[c], EndCoord(st.river, e), tol), c, e, n)
    ELSE st

\* one stage of the node's loop body for component c and endpoint e
Stage(st, H, c, e, n, tol) ==
    MoveEnd(st, FirstHit(H, Components(H)[c], EndCoord(st.river, e), tol), c, e, n)

RECURSIVE SnapNode(_, _, _, _, _)
\* the loop over the components for one node: first stage, second stage
SnapNode(st, H, c, n, tol) ==
    IF c > Len(Components(H)) THEN st
    ELSE SnapNode(Stage(Stage(st, H, c, 0, n, tol), H, c, 0 - 1, n, tol), H, c + 1, n, tol)

\* node.segment = river
SetSegment(f, n, r) == [f |-> [f EXCEPT !.segment[n] = r.river], to_add |-> r.to_add]

RECURSIVE SnapNodes(_, _, _, _)
\* the loop over tree.preOrder(): the forest with the snapped river
\* segments, and to_add
SnapNodes(st, H, ns, tol) ==
    IF ns = <<>> THEN st
    ELSE SnapNodes(SetSegment(st.f, ns[1],
                              SnapNode([river |-> st.f.segment[ns[1]], to_add |-> st.to_add],
                                       H, 1, ns[1], tol)),
                   H, Tail(ns), tol)

RECURSIVE Dedup(_, _, _)
\* to_add_dict2: an entry is kept unless an entry kept before it has the
\* same coordinate
Dedup(f, kept, es) ==
    IF es = <<>> THEN kept
    ELSE LET same(a, b) == close(EndCoord(f.segment[a.n], a.e), EndCoord(f.segment[b.n], b.e))
         IN  Dedup(f,
                   IF \A i \in 1..Len(kept) : ~same(es[1], kept[i])
                   THEN Append(kept, es[1]) ELSE kept,
                   Tail(es))

RECURSIVE HandlesOf(_, _)
\* the keys of to_add_dict, in the order in which they were entered
HandlesOf(seen, es) ==
    IF es = <<>> THEN seen
    ELSE HandlesOf(IF \E i \in 1..Len(seen) : seen[i] = es[1].h THEN seen
                   ELSE Append(seen, es[1].h),
                   Tail(es))

Item(seg, c, flag) == [c |-> c, f |-> flag, key |-> project(seg, c)]

\* new_coords and its flags for a segment and the coordinates to insert;
\* a loop is turned so that it starts and ends at its first new coordinate
Turned(seg, sorted) ==
    LET b == CHOOSE i \in 1..Len(sorted) :
               sorted[i].f = 1 /\ \A j \in 1..(i - 1) : sorted[j].f = 0
        turned == SubSeq(sorted, b, Len(sorted)) \o SubSeq(sorted, 1, b)
    IN  IF close(First(seg), Last(seg))
        THEN [i \in 1..Len(turned) |->
                 IF i = 1 \/ i = Len(turned)
                 THEN [turned[i] EXCEPT !.f = 0] ELSE turned[i]]
        ELSE sorted

\* the coordinates to sort, each with its flag
Flagged(seg, ins) ==
    [i \in 1..(IF close(First(seg), Last(seg)) THEN Len(seg) - 1 ELSE Len(seg)) |->
        [c |-> seg[i], f |-> 0]]
      \o [i \in 1..Len(ins) |-> [c |-> ins[i], f |-> 1]]

Items(seg, cs) == [i \in 1..Len(cs) |-> Item(seg, cs[i].c, cs[i].f)]

NewCoords(seg, ins) == Turned(seg, SortByKey(<<>>, Items(seg, Flagged(seg, ins))))

RECURSIVE Pieces(_, _, _)
\* the loop over breakpoint_inds and the last segment; raised when one of
\* the two assertions fails
Pieces(nc, start, i) ==
    IF i > Len(nc)
    THEN IF start < Len(nc)
         THEN [segs |-> <<[k \in 1..(Len(nc) - start + 1) |-> nc[start + k - 1].c]>>,
               raised |-> FALSE]
         ELSE [segs |-> <<>>, raised |-> TRUE]
    ELSE IF nc[i].f = 1
         THEN IF i = 1 THEN [segs |-> <<>>, raised |-> TRUE]
              ELSE LET rest == Pieces(nc, i, i + 1)
                   IN  [segs |-> <<[k \in 1..(i - start + 1) |-> nc[start + k - 1].c]>> \o rest.segs,
                        raised |-> rest.raised]
         ELSE Pieces(nc, start, i + 1)

\* a split that adds the new handles to the first component, whichever
\* component the segment belongs to
PutPiecesFirstComponent(o, h, c, ps) ==
    LET H == o.H
        new == [i \in 1..(Len(ps.segs) - 1) |-> Len(H.segments) + i]
        pool == [H EXCEPT !.segments = [@ EXCEPT ![h] = ps.segs[1]] \o Tail(ps.segs),
                          !.origin = @ \o [i \in 1..Len(new) |-> H.origin[h]]]
    IN  IF o.raised THEN o
        ELSE IF ps.raised THEN [o EXCEPT !.raised = TRUE]
        ELSE [o EXCEPT !.H = add_many(pool, 1, new)]

\* lines 264-266: the first piece stays under h, the others get new
\* handles, which are added to the component c
PutPieces(o, h, c, ps) ==
    LET H == o.H
        new == [i \in 1..(Len(ps.segs) - 1) |-> Len(H.segments) + i]
        pool == [H EXCEPT !.segments = [@ EXCEPT ![h] = ps.segs[1]] \o Tail(ps.segs),
                          !.origin = @ \o [i \in 1..Len(new) |-> H.origin[h]]]
    IN  IF o.raised THEN o
        ELSE IF ps.raised THEN [o EXCEPT !.raised = TRUE]
        ELSE [o EXCEPT !.H = add_many(pool, c, new)]

\* the coordinates of the entries of to_add
Inserted(f, es) == [i \in 1..Len(es) |-> EndCoord(f.segment[es[i].n], es[i].e)]

\* the loop body over to_add_dict2.items(): the segment of handle h is cut
\* at the coordinates of its entries
SplitSegment(o, h, es) ==
    PutPieces(o, h, es[1].c, Pieces(NewCoords(o.H.segments[h], Inserted(o.f, es)), 1, 1))

RECURSIVE SplitSegments(_, _, _)
SplitSegments(o, hs, to_add) ==
    IF hs = <<>> THEN o
    ELSE SplitSegments(
            SplitSegment(o, hs[1],
                         Dedup(o.f, <<>>, SelectSeq(to_add, LAMBDA a : a.h = hs[1]))),
            Tail(hs), to_add)

\* snap_endpoints(tree, hucs, tol)
\* lines 204-266: the points of to_add are put into the segments
InsertPoints(st, H) ==
    SplitSegments([f |-> st.f, H |-> H, raised |-> FALSE],
                  HandlesOf(<<>>, st.to_add), st.to_add)

\* snap_endpoints(tree, hucs, tol)
snap_endpoints(f, H, root, tol) ==
    InsertPoints(SnapNodes([f |-> f, to_add |-> <<>>], H, preOrder(f.children, root), tol), H)

(* --------------------- the forest specification ------------------------ *)

\* raw reaches: A, B of the two-segment example, a long outlet reach, a
\* unit reach ending at (1,1), a bent reach, and B reversed
RawReaches ==
    { << <<0, 0>>, <<1, 1>> >>,
      << <<1, 1>>, <<2, 2>> >>,
      << <<2, 2>>, <<5, 2>> >>,
      << <<0, 1>>, <<1, 1>> >>,
      << <<0, 0>>, <<1, 0>>, <<1, 1>> >>,
      << <<2, 2>>, <<1, 1>> >> }

\* join tolerances: 0.01 and 1.0
BuildTols == {1, 100}

\* cleanup tolerances: 0.5 and 2.0
CleanTols == {50, 200}

\* (prune_tol, merge_tol) of a cleanup call: equal, different, one of them None
CleanArgs == {<<200, 200>>, <<200, 50>>, <<50, 200>>, <<None, 200>>, <<200, None>>}

cur == Forest(segment, parent, children, rivers)

NoForest == Forest(<<>>, <<>>, <<>>, <<>>)

NoHUCs == HUCs(<<>>, <<>>, <<>>, <<>>, <<>>)

\* the value of at_phase2 before Phase 2 has started
NoSnapshot == [f |-> NoForest, H |-> NoHUCs]

Op(name, tree, t1, t2, t3) == [name |-> name, tree |-> tree, tol |-> <<t1, t2, t3>>]

SetForest(f) ==
    /\ segment' = f.segment
    /\ parent' = f.parent
    /\ children' = f.children
    /\ rivers' = f.rivers

InitForest ==
    /\ \E n \in 0..MaxReaches : reaches \in [1..n -> RawReaches]
    /\ segment = <<>>
    /\ parent = <<>>
    /\ children = <<>>
    /\ rivers = <<>>
    /\ pc = "raw"
    /\ op = Op("none", 0, None, None, None)
    /\ pre = NoForest
    /\ hucs = NoHUCs
    /\ tree_i = 0
    /\ result = "none"
    /\ at_phase2 = NoSnapshot
    /\ NoMesh

\* rivers = make_global_tree(reaches, tol)
MakeGlobalTree ==
    /\ pc = "raw"
    /\ \E tol \in BuildTols :
          /\ SetForest(IF Len(reaches) = 0 THEN NoForest ELSE make_global_tree(reaches, tol))
          /\ op' = Op("make_global_tree", 0, tol, None, None)
    /\ pc' = "built"
    /\ pre' = cur
    /\ UNCHANGED <<reaches, hucs, tree_i, result, at_phase2, mesh>>

Finish(o, name, i, t1, t2, t3) ==
    /\ SetForest(o.f)
    /\ pc' = IF o.raised THEN "raised" ELSE "built"
    /\ op' = Op(name, i, t1, t2, t3)
    /\ pre' = cur
    /\ UNCHANGED <<reaches, hucs, tree_i, result, at_phase2, mesh>>

Simplify ==
    /\ pc = "built"
    /\ \E i \in 1..Len(rivers), tol \in CleanTols :
          Finish(Outcome(simplify(cur, rivers[i], tol), FALSE), "simplify", i, tol, None, None)

Merge ==
    /\ pc = "built"
    /\ \E i \in 1..Len(rivers), tol \in CleanTols :
          Finish(merge(cur, rivers[i], tol), "merge", i, tol, None, None)

Prune ==
    /\ pc = "built"
    /\ \E i \in 1..Len(rivers), tol \in CleanTols :
          Finish(Outcome(prune(cur, rivers[i], tol), FALSE), "prune", i, tol, None, None)

Cleanup ==
    /\ pc = "built"
    /\ \E st \in {None, 200}, a \in CleanArgs :
          Finish(cleanup(cur, st, a[1], a[2]), "cleanup", 0, st, a[1], a[2])

NextForest == MakeGlobalTree \/ Simplify \/ Merge \/ Prune \/ Cleanup

SpecForest == InitForest /\ [][NextForest]_vars

NodesOf(f, root) == Range(preOrder(f.children, root))

AllConsistent(f) == \A i \in 1..Len(f.rivers) : is_consistent(f, f.rivers[i])

(* ----------------------- the snap specification ------------------------ *)

\* one polygon: its boundary is a single closed segment, begun in the
\* middle of the lower side
OneSquare ==
    HUCs(<< << <<4, 0>>, <<8, 0>>, <<8, 8>>, <<0, 8>>, <<0, 0>>, <<4, 0>> >> >>,
         << <<1>> >>, <<>>, << <<1>> >>, <<1>>)

\* two polygons side by side: two boundary segments and the segment they share
TwoHalves ==
    HUCs(<< << <<4, 8>>, <<0, 8>>, <<0, 0>>, <<4, 0>> >>,
            << <<4, 8>>, <<8, 8>>, <<8, 0>>, <<4, 0>> >>,
            << <<4, 0>>, <<4, 8>> >> >>,
         << <<1>>, <<2>> >>, << <<3>> >>, << <<1, 3>>, <<2, 3>> >>, <<1, 2, 3>>)

Worlds == {OneSquare, TwoHalves}

\* a river tree: the segments of its nodes, root first, and each node's
\* parent (0 for the root)
Tree(segs, par) == [segs |-> segs, par |-> par]

\* a reach from the shared side to next to the right side
Outlet == Tree(<< << <<4, 4>>, <<7, 4>> >> >>, <<0>>)

\* the same with a tributary that starts next to the left side
Junction == Tree(<< << <<4, 4>>, <<7, 4>> >>, << <<1, 4>>, <<4, 4>> >> >>, <<0, 1>>)

\* a reach along the left side that touches it before its end
Along == Tree(<< << <<1, 2>>, <<1, 4>>, <<0, 6>>, <<1, 6>> >> >>, <<0>>)

\* a reach that ends on the lower side, next to the middle of that side
Lower == Tree(<< << <<7, 3>>, <<5, 0>> >> >>, <<0>>)

\* a reach that ends next to the upper side, left of the middle
Upper == Tree(<< << <<2, 5>>, <<2, 7>> >> >>, <<0>>)

\* a reach with a tributary that joins it next to the middle of the lower side
Fork == Tree(<< << <<4, 1>>, <<6, 4>> >>, << <<2, 2>>, <<4, 1>> >> >>, <<0, 1>>)

RiverTrees == {Outlet, Junction, Along, Lower, Upper, Fork}

RECURSIVE PlantTrees(_, _)
\* the forest of a list of trees: the nodes are numbered tree after tree
PlantTrees(f, ts) ==
    IF ts = <<>> THEN f
    ELSE LET t == ts[1]
             k == Len(f.segment)
             kids(i) == SelectSeq(Ids(Len(t.segs)), LAMBDA j : t.par[j] = i)
         IN  PlantTrees(
                Forest(f.segment \o t.segs,
                       f.parent \o [i \in 1..Len(t.segs) |-> IF t.par[i] = 0 THEN 0 ELSE t.par[i] + k],
                       f.children \o [i \in 1..Len(t.segs) |->
                                         [j \in 1..Len(kids(i)) |-> kids(i)[j] + k]],
                       Append(f.rivers, k + 1)),
                Tail(ts))

\* tolerances of snap: 1.0 and 1.2; tol_triples: None or 1.0
SnapTols == {100, 120}

TripleTols == {None, 100}

RECURSIVE SnapTrees(_, _, _)
\* for tree in rivers: snap_endpoints(tree, hucs, tol), from tree i on
SnapTrees(o, i, tol) ==
    IF i > Len(o.f.rivers) \/ o.raised THEN o
    ELSE SnapTrees(snap_endpoints(o.f, o.H, o.f.rivers[i], tol), i + 1, tol)

\* the coordinates of a forest and of a pool of segments
AllCoords(f, H) ==
    UNION {Range(f.segment[n]) : n \in 1..Len(f.segment)}
      \cup UNION {Range(H.segments[h]) : h \in 1..Len(H.segments)}

OnGrid(o) == OffGrid \notin AllCoords(o.f, o.H)

TriplesTol(tol, tt) == IF tt = None THEN tol ELSE tt

\* the nearest points of the whole call are points of the integer grid
GridExact(f, H, tol, tt) ==
    IF Len(f.rivers) = 0 THEN TRUE
    ELSE OnGrid(SnapTrees([f |-> f,
                           H |-> snap_polygon_endpoints(H, f, TriplesTol(tol, tt)),
                           raised |-> FALSE], 1, tol))

InitSnap ==
    /\ hucs \in Worlds
    /\ \E n \in 0..MaxTrees : \E ts \in [1..n -> RiverTrees] :
          /\ segment = PlantTrees(NoForest, ts).segment
          /\ parent = PlantTrees(NoForest, ts).parent
          /\ children = PlantTrees(NoForest, ts).children
          /\ rivers = PlantTrees(NoForest, ts).rivers
    /\ \E tol \in SnapTols, tt \in TripleTols : op = Op("snap", 0, tol, tt, None)
    /\ GridExact(cur, hucs, op.tol[1], op.tol[2])
    /\ reaches = <<>>
    /\ pc = "call"
    /\ pre = [f |-> cur, H |-> hucs]
    /\ tree_i = 0
    /\ result = "none"
    /\ at_phase2 = NoSnapshot
    /\ NoMesh

\* a check that looks at the trees only
ChecksTreesOnly(f, H) == AllConsistent(f)

\* the checks made after a phase: every tree is consistent and
\* list(hucs.polygons()) does not raise
ChecksPass(f, H) == AllConsistent(f) /\ polygons_ok(H)

\* snap, up to the checks after Phase 1: no rivers returns True; Phase 1
\* runs and a failed check returns False
SnapPhase1 ==
    /\ pc = "call"
    /\ IF Len(rivers) = 0
       THEN /\ pc' = "returned"
            /\ result' = "True"
            /\ UNCHANGED <<hucs, tree_i, at_phase2>>
       ELSE \E H1 \in {snap_polygon_endpoints(hucs, cur, TriplesTol(op.tol[1], op.tol[2]))} :
            /\ hucs' = H1
            /\ IF ChecksPass(cur, H1)
               THEN /\ pc' = "phase2"
                    /\ tree_i' = 1
                    /\ result' = result
                    /\ at_phase2' = [f |-> cur, H |-> H1]
               ELSE /\ pc' = "returned"
                    /\ result' = "False"
                    /\ UNCHANGED <<tree_i, at_phase2>>
    /\ UNCHANGED <<reaches, segment, parent, children, rivers, op, pre, mesh>>

\* one pass of the loop of Phase 2: snap_endpoints on the next tree
SnapTree ==
    /\ pc = "phase2"
    /\ tree_i <= Len(rivers)
    /\ \E o \in {snap_endpoints(cur, hucs, rivers[tree_i], op.tol[1])} :
           /\ SetForest(o.f)
           /\ hucs' = o.H
           /\ pc' = IF o.raised THEN "raised" ELSE "phase2"
           /\ tree_i' = IF o.raised THEN tree_i ELSE tree_i + 1
    /\ UNCHANGED <<reaches, op, pre, result, at_phase2, mesh>>

SnapReturnRollingBack ==
    /\ pc = "phase2"
    /\ tree_i > Len(rivers)
    /\ pc' = "returned"
    /\ result' = IF ChecksPass(cur, hucs) THEN "True" ELSE "False"
    /\ IF ChecksPass(cur, hucs)
       THEN UNCHANGED <<segment, parent, children, rivers, hucs>>
       ELSE SetForest(pre.f) /\ hucs' = pre.H
    /\ UNCHANGED <<reaches, op, pre, tree_i, at_phase2, mesh>>

\* the checks after Phase 2 and the return
SnapReturn ==
    /\ pc = "phase2"
    /\ tree_i > Len(rivers)
    /\ pc' = "returned"
    /\ result' = IF ChecksPass(cur, hucs) THEN "True" ELSE "False"
    /\ UNCHANGED <<reaches, segment, parent, children, rivers, op, pre, hucs, tree_i, at_phase2, mesh>>

NextSnap == SnapPhase1 \/ SnapTree \/ SnapReturn

SpecSnap == InitSnap /\ [][NextSnap]_vars

(* ------------------------- properties of snap -------------------------- *)

Returned == pc = "returned"

\* the checks after Phase 1 have passed
Phase2Started == tree_i >= 1

\* Phase 2 has run through all the trees
Phase2Over == pc \in {"phase2", "returned"} /\ tree_i > Len(rivers)

\* what one step of a call of snap on a non-empty forest has to be
C1Step ==
    /\ pc = "call" =>
          /\ hucs' = snap_polygon_endpoints(hucs, cur, TriplesTol(op.tol[1], op.tol[2]))
          /\ IF AllConsistent(cur) /\ polygons_ok(hucs')
             THEN pc' = "phase2" /\ tree_i' = 1
             ELSE pc' = "returned" /\ result' = "False" /\ tree_i' = 0
    /\ pc = "phase2" /\ pc' # "returned" =>
          /\ tree_i <= Len(rivers)
          /\ \E o \in {snap_endpoints(cur, hucs, rivers[tree_i], op.tol[1])} :
                /\ hucs' = o.H
                /\ segment' = o.f.segment
                /\ IF o.raised THEN pc' = "raised" ELSE pc' = "phase2" /\ tree_i' = tree_i + 1
    /\ pc' = "returned" =>
          /\ result' = "True" =>
                /\ tree_i' = Len(rivers) + 1
                /\ AllConsistent(at_phase2'.f) /\ polygons_ok(at_phase2'.H)
                /\ AllConsistent([segment |-> segment', parent |-> parent',
                                  children |-> children', rivers |-> rivers'])
                /\ polygons_ok(hucs')
          /\ result' = "False" =>
                ~(/\ AllConsistent([segment |-> segment', parent |-> parent',
                                    children |-> children', rivers |-> rivers'])
                  /\ polygons_ok(hucs'))
          /\ result' \in {"True", "False"}

\* C1: on a non-empty forest snap runs Phase 1, then snap_endpoints on the
\* trees in list order; Phase 2 starts only when the checks after Phase 1
\* pass; snap returns False when a check after a phase fails and True only
\* when the checks after both phases pass.
C1_PhasesInOrderAndResult == [][Len(rivers) > 0 => C1Step]_vars

\* both phases have run on two trees, segments were split and snap returned True
C1_Witness ==
    /\ Returned /\ result = "True" /\ Len(rivers) = 2
    /\ Len(hucs.segments) > Len(pre.H.segments)
    /\ hucs.segments # at_phase2.H.segments /\ at_phase2.H # pre.H

\* C2: the rings closed before the call, so after the call every polygon's
\* ring, rebuilt by concatenating its handles in order, closes.
C2_RingsCloseAfterSnap == polygons_ok(pre.H) /\ Returned => polygons_ok(hucs)

\* the components and the polygons that reference the handle h
RefsOf(H, h) ==
    LET cs == {c \in 1..Len(Components(H)) : h \in Range(Components(H)[c])}
    IN  [comps |-> cs,
         gons |-> {g \in 1..Len(H.gons) : Range(H.gons[g]) \cap cs # {}}]

\* C3: a handle made by a split of Phase 2 is referenced by exactly the
\* components and polygons that referenced the split handle before, the
\* split handle keeps them, and so does every handle that is not split.
C3_SplitsKeepTheReferences ==
    Phase2Started =>
       \A h \in 1..Len(hucs.segments) :
          /\ hucs.origin[h] \in 1..Len(at_phase2.H.segments)
          /\ RefsOf(hucs, h) = RefsOf(at_phase2.H, hucs.origin[h])

\* the segment shared by the two polygons has been split
C3_Witness ==
    /\ Returned
    /\ \E h \in 1..Len(hucs.segments) :
          /\ hucs.origin[h] # h
          /\ Cardinality(RefsOf(hucs, h).gons) = 2
    /\ \E h \in 1..Len(hucs.segments) :
          /\ hucs.origin[h] # h
          /\ Cardinality(RefsOf(hucs, h).gons) = 1

\* the distance from p to the line is at most tol, less than tol
AtMostTolFrom(line, p, tol) ==
    \E k \in 1..(Len(line) - 1) :
       EdgeNear(p, line[k], line[k + 1]).num * 10000
          <= tol * tol * EdgeNear(p, line[k], line[k + 1]).den

NearerThanTolTo(line, p, tol) ==
    \E k \in 1..(Len(line) - 1) :
       EdgeNear(p, line[k], line[k + 1]).num * 10000
          < tol * tol * EdgeNear(p, line[k], line[k + 1]).den

\* the handles of the exterior and shared-interior pools
PoolHandles(H) == UNION {Range(Components(H)[c]) : c \in 1..Len(Components(H))}

IsVertex(p, H) == \E h \in PoolHandles(H) : p \in Range(H.segments[h])

Ends == {0, 0 - 1}

ReachA == << <<0, 0>>, <<1, 1>> >>

ReachB == << <<1, 1>>, <<2, 2>> >>

CleanupOps == {"simplify", "merge", "prune", "cleanup"}

AfterBuild == pc = "built" /\ op.name = "make_global_tree"

\* the reaches whose first coordinate lies within tol of the end of reach j
StartsNear(j, tol) ==
    {c \in 1..Len(reaches) : D2(reaches[c][1], reaches[j][Len(reaches[j])]) * 10000 <= tol * tol}

\* C6: after make_global_tree(rivers, tol), a reach whose end has no reach
\* start within tol is a root of the returned forest, and a reach whose end
\* has exactly one reach start c within tol is a child of c; A, B at tol 0.01
\* give the single tree rooted at B with A as its only child.
C6_RootOrChildOfTheMatch ==
    AfterBuild =>
        /\ \A j \in 1..Len(reaches) :
              /\ StartsNear(j, op.tol[1]) = {} =>
                    /\ parent[j] = 0
                    /\ Cardinality({i \in 1..Len(rivers) : rivers[i] = j}) = 1
              /\ \A c \in StartsNear(j, op.tol[1]) :
                    StartsNear(j, op.tol[1]) = {c} =>
                        /\ parent[j] = c
                        /\ Cardinality({i \in 1..Len(children[c]) : children[c][i] = j}) = 1
                        /\ \A i \in 1..Len(rivers) : rivers[i] # j
        /\ (reaches = <<ReachA, ReachB>> /\ op.tol[1] = 1) =>
              /\ rivers = <<2>>
              /\ children = <<<<>>, <<1>>>>
              /\ parent = <<2, 0>>

\* C6 witness: the tree of the example has been built
C6_Witness ==
    AfterBuild /\ reaches = <<ReachA, ReachB>> /\ op.tol[1] = 1 /\ rivers = <<2>>

RECURSIVE Up(_, _, _)
\* the k-th ancestor of node j, 0 when there is none
Up(pa, j, k) ==
    IF k = 0 \/ j = 0 THEN j ELSE Up(pa, pa[j], k - 1)

\* C7: make_global_tree never drops a reach and returns a forest: every input
\* reach is a node under exactly one returned root and no node is its own
\* ancestor.
C7_EveryReachUnderOneRoot ==
    AfterBuild =>
        \A j \in 1..Len(reaches) :
            /\ Cardinality({i \in 1..Len(rivers) : j \in NodesOf(cur, rivers[i])}) = 1
            /\ \A k \in 1..Len(reaches) : Up(parent, j, k) # j

AllShorter(f, root, tol) == \A n \in NodesOf(f, root) : SegLength(f.segment[n]) < tol

AfterPruneOfShortTree ==
    /\ op.name = "prune"
    /\ AllShorter(pre, pre.rivers[op.tree], op.tol[1])

\* C8 as stated: pruning a tree all of whose segments are shorter than
\* prune_tol removes every node of it and leaves the forest without trees.
C8_PruneEmptiesTheForest ==
    AfterPruneOfShortTree =>
        /\ rivers = <<>>
        /\ NodesOf(pre, pre.rivers[op.tree]) \cap ForestNodes(cur) = {}

\* C8 amended: pruning a tree all of whose segments are shorter than prune_tol
\* never removes the root and leaves the list of trees as it was; for the
\* tree built from A and B, prune at 2.0 removes A only: B stays as a tree of
\* one node.
C8_PruneKeepsTheRoot ==
    AfterPruneOfShortTree =>
        /\ rivers = pre.rivers
        /\ Len(rivers) >= 1
        /\ parent[rivers[op.tree]] = 0
        /\ (pre.segment = <<ReachA, ReachB>> /\ pre.children = <<<<>>, <<1>>>>
              /\ pre.rivers = <<2>> /\ op.tol[1] = 200) =>
              /\ ForestNodes(cur) = {2}
              /\ children[2] = <<>>
              /\ segment[2] = ReachB

\* C8 witness: prune at 2.0 has run on the tree built from A and B
C8_Witness ==
    /\ op.name = "prune"
    /\ op.tol[1] = 200
    /\ pre.segment = <<ReachA, ReachB>>
    /\ pre.children = <<<<>>, <<1>>>>
    /\ pre.rivers = <<2>>
    /\ ForestNodes(cur) = {2}

\* C5: after simplify, merge, prune or cleanup on a forest of consistent
\* trees, every remaining non-root node's segment ends at exactly the first
\* coordinate of its parent's segment.
C5_CleanupKeepsTreesConsistent ==
    (op.name \in CleanupOps /\ AllConsistent(pre)) =>
        \A n \in ForestNodes(cur) :
            parent[n] # 0 => Last(segment[n]) = First(segment[parent[n]])

\* C5 witness: a merge on a consistent tree has removed a reach and re-homed
\* its child onto the removed reach's parent
C5_Witness ==
    /\ op.name = "merge"
    /\ pc = "built"
    /\ AllConsistent(pre)
    /\ \E n \in ForestNodes(cur) :
          /\ parent[n] # 0
          /\ pre.parent[n] # parent[n]
          /\ pre.parent[n] \notin ForestNodes(cur)

\* C9: simplify, merge, prune and cleanup leave the list of trees as it was:
\* the same root nodes in the same order, each still without parent.
C9_RootSetUnchanged ==
    op.name \in CleanupOps =>
        /\ rivers = pre.rivers
        /\ \A i \in 1..Len(rivers) : parent[rivers[i]] = 0

\* C9 witness: a merge or prune with a tolerance above the root's length ran
C9_Witness ==
    /\ op.name \in {"merge", "prune", "cleanup"}
    /\ pc = "built"
    /\ \E i \in 1..Len(pre.rivers) :
          /\ SegLength(pre.segment[pre.rivers[i]]) < 200
          /\ op.tol # <<50, None, None>>
          /\ op.tree \in {0, i}
          /\ ForestNodes(cur) # ForestNodes(pre)

\* C10: simplify, merge and prune complete without raising on every
\* consistent tree, for every tolerance.
C10_CleanupNeverRaises ==
    (op.name \in {"simplify", "merge", "prune"} /\ AllConsistent(pre)) => pc # "raised"

(* ------------------------ repeated cleanup calls ----------------------- *)

\* the operator that was called last, called once more on the same tree
\* with the same tol
Again ==
    IF op.name = "simplify" THEN Outcome(simplify(cur, rivers[op.tree], op.tol[1]), FALSE)
    ELSE IF op.name = "merge" THEN merge(cur, rivers[op.tree], op.tol[1])
    ELSE Outcome(prune(cur, rivers[op.tree], op.tol[1]), FALSE)

AfterOneOf(names) == pc = "built" /\ op.name \in names

ShortLeaves(f, root, tol) ==
    {n \in NodesOf(f, root) :
        f.children[n] = <<>> /\ f.parent[n] # 0 /\ SegLength(f.segment[n]) < tol}

AfterPhase2 ==
    SnapTrees([f |-> at_phase2.f, H |-> at_phase2.H, raised |-> FALSE], 1, op.tol[1])

\* C19: when snap returns False, hucs and rivers are as the phases that ran
\* left them: hucs as Phase 1 left it and the rivers untouched when the
\* checks after Phase 1 failed, both as snap_endpoints on every tree left
\* them when the checks after Phase 2 failed.  Nothing is undone.
C19_FalseKeepsTheChanges ==
    op.name = "snap" /\ Returned /\ result = "False" =>
        IF Phase2Started
        THEN hucs = AfterPhase2.H /\ cur = AfterPhase2.f
        ELSE /\ hucs = snap_polygon_endpoints(pre.H, pre.f, TriplesTol(op.tol[1], op.tol[2]))
             /\ cur = pre.f

\* snap returned False after Phase 2 moved river coordinates and split segments
C19_Witness ==
    /\ op.name = "snap" /\ Returned /\ result = "False"
    /\ Phase2Started
    /\ cur.segment # pre.f.segment
    /\ DOMAIN hucs.segments # DOMAIN pre.H.segments

(* ------------------- snap: the targets of Phase 1 ---------------------- *)

\* the last coordinate of every root and the first coordinate of every leaf
OutletsAndInlets(f) ==
    {Last(f.segment[f.rivers[i]]) : i \in 1..Len(f.rivers)}
       \cup {First(f.segment[n]) : n \in {m \in ForestNodes(f) : f.children[m] = <<>>}}

\* the last coordinates of the nodes that are not roots
JunctionEnds(f) ==
    {Last(f.segment[n]) : n \in {m \in ForestNodes(f) : f.parent[m] # 0}}

\* the ends of boundary segments that Phase 1 has moved, as <<from, to>>
MovedEnds(H0, H1) ==
    {<<First(H0.segments[h]), First(H1.segments[h])>> : h \in 1..Len(H0.segments)}
       \cup {<<Last(H0.segments[h]), Last(H1.segments[h])>> : h \in 1..Len(H0.segments)}

\* C20: Phase 1 moves an end of a boundary segment only onto the last
\* coordinate of a tree root or the first coordinate of a leaf, never onto
\* the last coordinate of a node that is not a root.
C20_Phase1SnapsToOutletsAndInletsOnly ==
    [][pc = "call" /\ op.name = "snap" /\ Len(rivers) > 0 =>
          \A mv \in MovedEnds(hucs, hucs') :
              mv[1] # mv[2] => mv[2] \in OutletsAndInlets(cur)]_vars

(* ------------------- hilev.simplify_and_prune -------------------------- *)

\* simplify: 0.5 and 2.0; prune_reach_size: 0 and 2
ReachSizes == {0, 2}

\* the functions that hydrography.py defines
HydrographyDefs ==
    {"snap", "_snap_and_cut", "_snap_crossing", "snap_crossings", "snap_polygon_endpoints",
     "snap_endpoints", "make_global_tree", "filter_rivers_to_huc", "quick_cleanup",
     "cleanup", "prune", "merge", "simplify"}

\* the first stage of simplify_and_prune, l.534: the attribute looked up in
\* workflow.hydrography
FilterStage == "filter_rivers_to_shape"

\* simplify_and_prune(hucs, reaches, simplify, prune_reach_size): the stage it
\* stops in and how; the lookup of l.534 comes before every other stage
simplify_and_prune(H, rs, tol, size) ==
    IF FilterStage \notin HydrographyDefs
    THEN [pc |-> "raised", result |-> "AttributeError"]
    ELSE [pc |-> "filtered", result |-> "none"]

InitPrune ==
    /\ \E n \in 0..MaxReaches : reaches \in [1..n -> RawReaches]
    /\ hucs \in Worlds
    /\ \E tol \in CleanTols, size \in ReachSizes :
          op = Op("simplify_and_prune", 0, tol, size, None)
    /\ segment = <<>>
    /\ parent = <<>>
    /\ children = <<>>
    /\ rivers = <<>>
    /\ pc = "call"
    /\ pre = [f |-> NoForest, H |-> hucs]
    /\ tree_i = 0
    /\ result = "none"
    /\ at_phase2 = NoSnapshot
    /\ NoMesh

SimplifyAndPrune ==
    /\ pc = "call"
    /\ \E o \in {simplify_and_prune(hucs, reaches, op.tol[1], op.tol[2])} :
          /\ pc' = o.pc
          /\ result' = o.result
    /\ UNCHANGED <<reaches, segment, parent, children, rivers, op, pre, hucs, tree_i, at_phase2, mesh>>

NextPrune == SimplifyAndPrune

SpecPrune == InitPrune /\ [][NextPrune]_vars

\* make_global_tree on no reaches returns the empty forest
EmptyBuildIsEmpty == AfterBuild /\ reaches = <<>> => cur = NoForest

\* snap on no rivers returns True and leaves hucs as it was
EmptySnapIsNoOp ==
    Returned /\ op.name = "snap" /\ rivers = <<>> => result = "True" /\ hucs = pre.H

\* C12: with zero reaches simplify_and_prune returns an empty forest, as
\* make_global_tree and snap do on empty input, and does not raise.
C12_EmptyInputReturnsEmptyForest ==
    op.name = "simplify_and_prune" /\ reaches = <<>> /\ pc # "call"
       => pc = "returned" /\ rivers = <<>>

\* C18: a call of simplify_and_prune runs its stages, the filter to the
\* boundary first and snap last, and ends by returning the river forest:
\* it does not end by raising.
C18_StagesRunAndForestReturned ==
    op.name = "simplify_and_prune" /\ pc # "call" => pc # "raised" /\ result = "rivers"

(* ------------------- hilev.elevate, values_from_raster ----------------- *)
(* Mesh coordinates are integers; a pixel is PixelSize units wide and      *)
(* high, so pixel coordinates are whole halves.  A fractional pixel        *)
(* coordinate is a pair <<n, k>> standing for n/2 + k*eps, with eps the    *)
(* 1.e-10 of l.776, smaller than any other quantity.  A raster value       *)
(* computed by interpolation is a pair <<q, e>> standing for               *)
(* q/4 + (e/2)*eps, terms in eps*eps dropped.                              *)

\* most mesh points handed to elevate
MaxPoints == 2

\* the affine transform of the raster profile: upper left corner <<0, Top>>,
\* square pixels, rows running down
PixelSize == 2
Top == 6

\* rasters: a sequence of rows; height and width of the profile are its shape
Rasters ==
    { << <<5>> >>,
      << <<1, 2>> >>,
      << <<1>>, <<2>> >>,
      << <<3, 3>>, <<3, 3>> >>,
      << <<1, 2, 3>>, <<4, 5, 6>>, <<7, 8, 9>> >>,
      << <<7, 7, 7>>, <<7, 7, 7>>, <<7, 7, 7>> >> }

Height(raster) == Len(raster)
Width(raster) == Len(raster[1])

\* mesh points inside and on every side of the rasters
MeshCoords ==
    {<<1, 5>>, <<2, 4>>, <<3, 4>>, <<0 - 1, 5>>, <<7, 3>>, <<2, 7>>, <<3, 0 - 1>>}

Algorithms == {"nearest", "piecewise bilinear"}

\* ~transform * xy: <<col, row>> in halves of a pixel
InvTransform(xy) == <<xy[1], Top - xy[2]>>

\* rasterio.transform.rowcol: the floor of the pixel coordinates
rowcol(xy) ==
    <<InvTransform(xy)[2] \div PixelSize, InvTransform(xy)[1] \div PixelSize>>

\* numpy accepts an index from -n to n-1 on an axis of length n
IndexOk(raster, rc) ==
    /\ rc[1] >= 0 - Height(raster) /\ rc[1] < Height(raster)
    /\ rc[2] >= 0 - Width(raster) /\ rc[2] < Width(raster)

\* raster[row, col], a negative index counting from the end
At(raster, rc) == raster[(rc[1] % Height(raster)) + 1][(rc[2] % Width(raster)) + 1]

\* a raster value that was read, not interpolated
Val(v) == <<4 * v, 0>>

FracLT(a, b) == a[1] < b[1] \/ (a[1] = b[1] /\ a[2] < b[2])
FracMin(a, b) == IF FracLT(b, a) THEN b ELSE a
FracMax(a, b) == IF FracLT(a, b) THEN b ELSE a

\* max(eps, min(dim-1-eps, i)), l.790-791
Clamp(dim, i) == FracMax(<<0, 1>>, FracMin(<<2 * (dim - 1), 0 - 1>>, i))

Floor(a) == IF a[1] % 2 = 0 /\ a[2] < 0 THEN (a[1] \div 2) - 1 ELSE a[1] \div 2
Ceil(a) == IF a[1] % 2 = 0 /\ a[2] <= 0 THEN a[1] \div 2 ELSE (a[1] \div 2) + 1

\* i % 1, again n/2 + k*eps
Frac(a) == <<a[1] - 2 * Floor(a), a[2]>>

\* the four pixels of mybox in the order they are read, l.793-796
BoxReads(i, j) ==
    << <<Floor(i), Floor(j)>>, <<Floor(i), Ceil(j)>>,
       <<Ceil(i), Floor(j)>>, <<Ceil(i), Ceil(j)>> >>

LerpSum(a, b, t) == <<2 * a + t[1] * (b + a), t[2] * (b + a)>>

\* a + t * (b - a) with a, b whole and t a fraction: twice the value and the
\* coefficient of eps
Lerp(a, b, t) == <<2 * a + t[1] * (b - a), t[2] * (b - a)>>

\* up + (dn - up) * ii, l.800-802
Interpolate(box, ii, jj) ==
    LET up == Lerp(box[1], box[2], jj)
        dn == Lerp(box[3], box[4], jj)
    IN  <<2 * up[1] + (dn[1] - up[1]) * ii[1],
          2 * up[2] + (dn[2] - up[2]) * ii[1] + (dn[1] - up[1]) * ii[2]>>

FirstBad(raster, rds) ==
    IF \E k \in 1..Len(rds) : ~IndexOk(raster, rds[k])
    THEN CHOOSE k \in 1..Len(rds) :
            ~IndexOk(raster, rds[k]) /\ \A m \in 1..(k - 1) : IndexOk(raster, rds[m])
    ELSE 0

\* one pass of the loop of l.782-802
BilinearAt(raster, rds, i, j) ==
    IF FirstBad(raster, rds) # 0
    THEN [raised |-> TRUE, value |-> Val(0),
          reads |-> {rds[k] : k \in 1..FirstBad(raster, rds)}]
    ELSE [raised |-> FALSE,
          value |-> Interpolate([k \in 1..4 |-> At(raster, rds[k])], Frac(i), Frac(j)),
          reads |-> {rds[k] : k \in 1..4}]

Centred(xy) == <<InvTransform(xy)[2] - 1, InvTransform(xy)[1] - 1>>

Bilinear(raster, xy) ==
    BilinearAt(raster,
               BoxReads(Clamp(Height(raster), <<Centred(xy)[1], 0>>),
                        Clamp(Width(raster), <<Centred(xy)[2], 0>>)),
               Clamp(Height(raster), <<Centred(xy)[1], 0>>),
               Clamp(Width(raster), <<Centred(xy)[2], 0>>))

RECURSIVE BilinearFrom(_, _, _, _)
BilinearFrom(raster, points, k, acc) ==
    IF k > Len(points) THEN acc
    ELSE LET one == Bilinear(raster, points[k])
         IN  IF one.raised
             THEN [raised |-> TRUE, values |-> <<>>, reads |-> acc.reads \cup one.reads]
             ELSE BilinearFrom(raster, points, k + 1,
                     [raised |-> FALSE, values |-> Append(acc.values, one.value),
                      reads |-> acc.reads \cup one.reads])

\* raster[rowcol(...)], l.773-774: one indexing with the arrays of rows and columns
NearestPixels(raster, points) ==
    IF \E k \in 1..Len(points) : ~IndexOk(raster, rowcol(points[k]))
    THEN [raised |-> TRUE, values |-> <<>>,
          reads |-> {rowcol(points[k]) : k \in 1..Len(points)}]
    ELSE [raised |-> FALSE,
          values |-> [k \in 1..Len(points) |-> Val(At(raster, rowcol(points[k])))],
          reads |-> {rowcol(points[k]) : k \in 1..Len(points)}]

values_from_raster(points, raster, algorithm) ==
    IF algorithm = "nearest" THEN NearestPixels(raster, points)
    ELSE BilinearFrom(raster, points, 1, [raised |-> FALSE, values |-> <<>>, reads |-> {}])

elevateReversed(points, elev) ==
    [k \in 1..Len(points) |-> <<points[k][1], points[k][2], elev[Len(points) + 1 - k]>>]

\* elevate, l.738-745: the rows <<x, y, z>> of mesh_points_3
elevate(points, elev) ==
    [k \in 1..Len(points) |-> <<points[k][1], points[k][2], elev[k]>>]

InitElevate ==
    /\ \E n \in 0..MaxPoints : mesh_points \in [1..n -> MeshCoords]
    /\ \E raster \in Rasters, algorithm \in Algorithms :
          args = [dem |-> raster, algorithm |-> algorithm]
    /\ op = Op("elevate", 0, None, None, None)
    /\ reaches = <<>>
    /\ segment = <<>>
    /\ parent = <<>>
    /\ children = <<>>
    /\ rivers = <<>>
    /\ hucs = NoHUCs
    /\ pc = "call"
    /\ pre = NoSnapshot
    /\ tree_i = 0
    /\ result = "none"
    /\ at_phase2 = NoSnapshot
    /\ mesh_tris = <<>>
    /\ returned = <<>>
    /\ reads = {}
    /\ needs_refine = <<>>

Elevate ==
    /\ pc = "call"
    /\ op.name = "elevate"
    /\ \E o \in {values_from_raster(mesh_points, args.dem, args.algorithm)} :
          /\ reads' = o.reads
          /\ IF o.raised
             THEN /\ pc' = "raised"
                  /\ result' = "IndexError"
                  /\ UNCHANGED returned
             ELSE /\ pc' = "returned"
                  /\ result' = "mesh_points_3"
                  /\ returned' = elevate(mesh_points, o.values)
    /\ UNCHANGED <<reaches, segment, parent, children, rivers, op, pre, hucs, tree_i,
                   at_phase2, args, mesh_points, mesh_tris, needs_refine>>

NextElevate == Elevate

SpecElevate == InitElevate /\ [][NextElevate]_vars

(* ------------------- elevation of the mesh ----------------------------- *)

ElevateReturned == op.name = "elevate" /\ pc = "returned"

\* the raster value sampled at one vertex
Sampled(xy) == values_from_raster(<<xy>>, args.dem, args.algorithm).values[1]

InsideRaster(raster, rc) ==
    /\ rc[1] >= 0 /\ rc[1] < Height(raster)
    /\ rc[2] >= 0 /\ rc[2] < Width(raster)

\* C14: for every vertex and every raster size, sampling returns a value and
\* reads only pixels whose row is in 0..height-1 and column in 0..width-1.
C14_SamplingStaysInsideTheRaster ==
    op.name = "elevate" /\ pc # "call" =>
        /\ pc = "returned"
        /\ \A rc \in reads : InsideRaster(args.dem, rc)

Constant(raster, v) ==
    \A i \in 1..Height(raster), j \in 1..Width(raster) : raster[i][j] = v

MeshPoints ==
    << <<0, 0>>, <<4, 0>>, <<4, 4>>, <<0, 4>>, <<2, 2>>,
       <<2, 0>>, <<4, 2>>, <<2, 4>>, <<0, 2>> >>

\* triangles as triples of indices into the points
Meshes ==
    << [points |-> SubSeq(MeshPoints, 1, 4),
        tris |-> << <<1, 2, 3>>, <<1, 3, 4>> >>],
       [points |-> SubSeq(MeshPoints, 1, 5),
        tris |-> << <<1, 2, 5>>, <<2, 3, 5>>, <<3, 4, 5>>, <<4, 1, 5>> >>],
       [points |-> MeshPoints,
        tris |-> << <<1, 6, 5>>, <<6, 2, 5>>, <<2, 7, 5>>, <<7, 3, 5>>,
                    <<3, 8, 5>>, <<8, 4, 5>>, <<4, 9, 5>>, <<9, 1, 5>> >>] >>

\* the criteria a caller may supply; None is "not supplied"
MaxAreas == {None, 1, 3, 5}
\* refine_distance is a list; <<>> is "not supplied"
NoDistance == <<>>
RefineDistances == {NoDistance, <<1, 1, 3, 6>>}
MaxEdgeLengths == {None, 2, 3}

\* rounds of refinement the mesher makes before it gives up
Limits == 0..(Len(Meshes) - 1)

\* mesh_points[tri]
Vertices(points, tri) == <<points[tri[1]], points[tri[2]], points[tri[3]]>>

Abs(x) == IF x < 0 THEN 0 - x ELSE x

\* twice the area of a triangle
Area2(v) ==
    Abs((v[2][1] - v[1][1]) * (v[3][2] - v[1][2]) - (v[3][1] - v[1][1]) * (v[2][2] - v[1][2]))

\* three times the distance of the centroid to the river
Dist3(v) == v[1][2] + v[2][2] + v[3][2]

refine_from_max_area(max_area, v) == Area2(v) > 2 * max_area

refine_from_max_edge_length(len, v) ==
    \E a, b \in 1..3 : D2(v[a], v[b]) > len * len

\* rd = <<near_distance, near_area, far_distance, far_area>>
refine_from_river_distance(rd, v) ==
    IF Dist3(v) < 3 * rd[1] THEN Area2(v) > 2 * rd[2]
    ELSE IF Dist3(v) > 3 * rd[3] THEN Area2(v) > 2 * rd[4]
    ELSE Area2(v) * 3 * (rd[3] - rd[1])
            > 2 * (3 * rd[2] * (rd[3] - rd[1]) + (rd[4] - rd[2]) * (Dist3(v) - 3 * rd[1]))

\* l.662-668: the list of the criteria supplied
refine_funcs(a) ==
    (IF a.refine_max_area # None THEN <<"max_area">> ELSE <<>>)
    \o (IF a.refine_distance # NoDistance THEN <<"river_distance">> ELSE <<>>)
    \o (IF a.refine_max_edge_length # None THEN <<"max_edge_length">> ELSE <<>>)

\* rf(*args) for one member of refine_funcs
Criterion(a, rf, v) ==
    IF rf = "max_area" THEN refine_from_max_area(a.refine_max_area, v)
    ELSE IF rf = "river_distance" THEN refine_from_river_distance(a.refine_distance, v)
    ELSE refine_from_max_edge_length(a.refine_max_edge_length, v)

RECURSIVE AllOf(_, _, _, _)
AllOf(a, rfs, k, v) ==
    IF k > Len(rfs) THEN TRUE
    ELSE IF ~Criterion(a, rfs[k], v) THEN FALSE
    ELSE AllOf(a, rfs, k + 1, v)

\* any(...): true at the first member that is true, false at the end of the list
RECURSIVE AnyOf(_, _, _, _)
AnyOf(a, rfs, k, v) ==
    IF k > Len(rfs) THEN FALSE
    ELSE IF Criterion(a, rfs[k], v) THEN TRUE
    ELSE AnyOf(a, rfs, k + 1, v)

my_refine_func(a, v) == AnyOf(a, refine_funcs(a), 1, v)

NeedsRefine(a, m) ==
    [t \in 1..Len(m.tris) |-> my_refine_func(a, Vertices(m.points, m.tris[t]))]

\* workflow.triangulation.triangulate: refine while a triangle fails the
\* predicate and the limit is not reached
RECURSIVE MeshAt(_, _)
MeshAt(a, level) ==
    IF level - 1 < a.limit /\ \E t \in 1..Len(Meshes[level].tris) : NeedsRefine(a, Meshes[level])[t]
    THEN MeshAt(a, level + 1)
    ELSE Meshes[level]

\* triangulate: the mesh, the needs_refine of the diagnostics, the value returned
triangulate(a) ==
    [mesh |-> MeshAt(a, 1),
     needs_refine |-> IF a.diagnostics THEN NeedsRefine(a, MeshAt(a, 1)) ELSE <<>>,
     returned |-> <<MeshAt(a, 1).points, MeshAt(a, 1).tris>>]

InitTriangulate ==
    /\ \E ma \in MaxAreas, rd \in RefineDistances, ml \in MaxEdgeLengths,
          lim \in Limits, dg \in BOOLEAN :
          args = [refine_max_area |-> ma, refine_distance |-> rd,
                  refine_max_edge_length |-> ml, limit |-> lim, diagnostics |-> dg]
    /\ op = Op("triangulate", 0, None, None, None)
    /\ reaches = <<>>
    /\ segment = <<>>
    /\ parent = <<>>
    /\ children = <<>>
    /\ rivers = <<>>
    /\ hucs = NoHUCs
    /\ pc = "call"
    /\ pre = NoSnapshot
    /\ tree_i = 0
    /\ result = "none"
    /\ at_phase2 = NoSnapshot
    /\ mesh_points = <<>>
    /\ mesh_tris = <<>>
    /\ returned = <<>>
    /\ reads = {}
    /\ needs_refine = <<>>

Triangulate ==
    /\ pc = "call"
    /\ op.name = "triangulate"
    /\ \E o \in {triangulate(args)} :
          /\ mesh_points' = o.mesh.points
          /\ mesh_tris' = o.mesh.tris
          /\ needs_refine' = o.needs_refine
          /\ returned' = o.returned
    /\ pc' = "returned"
    /\ result' = "mesh"
    /\ UNCHANGED <<reaches, segment, parent, children, rivers, op, pre, hucs, tree_i,
                   at_phase2, args, reads>>

NextTriangulate == Triangulate

SpecTriangulate == InitTriangulate /\ [][NextTriangulate]_vars

TriangulateReturned == op.name = "triangulate" /\ pc = "returned"

\* a triangle of the returned mesh for which the predicate is true
Unrefined ==
    \E t \in 1..Len(returned[2]) :
        my_refine_func(args, Vertices(returned[1], returned[2][t]))

\* C16: when the mesh that triangulate returns still has a triangle for
\* which the refinement predicate is true, the value returned carries a
\* quality warning next to the points and the triangles.
C16_UnrefinedMeshCarriesWarning ==
    TriangulateReturned /\ Unrefined => Len(returned) > 2

Supplied(a) ==
    {c \in {"max_area", "river_distance", "max_edge_length"} :
        \/ c = "max_area" /\ a.refine_max_area # None
        \/ c = "river_distance" /\ a.refine_distance # NoDistance
        \/ c = "max_edge_length" /\ a.refine_max_edge_length # None}

AllTriangles ==
    UNION {{Vertices(Meshes[m].points, Meshes[m].tris[t]) : t \in 1..Len(Meshes[m].tris)} :
              m \in 1..Len(Meshes)}

\* C17: the predicate that triangulate builds is true of a triangle exactly
\* when one of the supplied criteria is, and false of every triangle when
\* none is supplied.
C17_PredicateIsOrOfSuppliedCriteria ==
    TriangulateReturned =>
        /\ \A v \in AllTriangles :
              my_refine_func(args, v) <=> \E c \in Supplied(args) : Criterion(args, c, v)
        /\ \A t \in 1..Len(needs_refine) :
              needs_refine[t] <=>
                 \E c \in Supplied(args) : Criterion(args, c, Vertices(mesh_points, mesh_tris[t]))
        /\ Supplied(args) = {} => \A v \in AllTriangles : ~my_refine_func(args, v)

C17_Witness ==
    /\ TriangulateReturned
    /\ Cardinality(Supplied(args)) = 3
    /\ \E t \in 1..Len(needs_refine) :
          /\ needs_refine[t]
          /\ Cardinality({c \in Supplied(args) :
                Criterion(args, c, Vertices(mesh_points, mesh_tris[t]))}) = 1
    /\ \E t \in 1..Len(needs_refine) : ~needs_refine[t]

(* ------------------- snap: the frame of Phase 1 ------------------------ *)

\* the coordinates in the index of Phase 1
Indexed(f) == Range(RiverEndpoints(f))

\* new is a coordinate of the index none of which is nearer to old
NearestIndexed(f, old, new) ==
    new \in Indexed(f) /\ \A t \in Indexed(f) : D2(t, old) >= D2(new, old)

\* Phase 1 changes the two ends of the boundary segments and nothing else
Phase1Frame ==
    /\ segment' = segment /\ parent' = parent /\ children' = children /\ rivers' = rivers
    /\ hucs'.boundaries = hucs.boundaries
    /\ hucs'.intersections = hucs.intersections
    /\ hucs'.gons = hucs.gons
    /\ Len(hucs'.segments) = Len(hucs.segments)
    /\ \A h \in 1..Len(hucs.segments) :
          /\ Len(hucs'.segments[h]) = Len(hucs.segments[h])
          /\ \A i \in 2..(Len(hucs.segments[h]) - 1) :
                hucs'.segments[h][i] = hucs.segments[h][i]

Phase1Step == pc = "call" /\ op.name = "snap" /\ Len(rivers) > 0

Phase1Tol == TriplesTol(op.tol[1], op.tol[2])

HasZeroLengthPiece(seg) == \E i \in 1..(Len(seg) - 1) : seg[i] = seg[i + 1]

\* C22: Phase 2 makes no split at a coordinate that is already a vertex of
\* the segment: no assertion of the split step fails and no boundary segment
\* gets a zero-length piece.
C22_NoSplitAtAVertex ==
    op.name = "snap" =>
        /\ pc # "raised"
        /\ \A h \in 1..Len(hucs.segments) : ~HasZeroLengthPiece(hucs.segments[h])

\* a pass of the loop of Phase 2 that does not raise
TreeSnapped == pc = "phase2" /\ op.name = "snap" /\ tree_i <= Len(rivers) /\ pc' # "raised"

\* the trees and to_add when the loop over the nodes of the next tree ends
Snapped ==
    SnapNodes([f |-> cur, to_add |-> <<>>], hucs, preOrder(children, rivers[tree_i]), op.tol[1])

\* the coordinates that the entries of to_add for handle h stand for
SnappedOnto(st, h) ==
    {EndCoord(st.f.segment[st.to_add[i].n], st.to_add[i].e) :
        i \in {j \in 1..Len(st.to_add) : st.to_add[j].h = h}}

IsLoop(seg) == close(First(seg), Last(seg))

\* each segment of the list ends where the next begins
Chain(H, ps) ==
    \A k \in 1..(Len(ps) - 1) : Last(H.segments[ps[k]]) = First(H.segments[ps[k + 1]])

RECURSIVE Join(_, _)
\* the coordinates of a chain of segments, each joint taken once
Join(H, ps) ==
    IF Len(ps) = 1 THEN H.segments[ps[1]]
    ELSE H.segments[ps[1]] \o Tail(Join(H, Tail(ps)))

RECURSIVE JointAt(_, _, _)
\* the place in Join(H, ps) of the joint between segments k and k + 1
JointAt(H, ps, k) ==
    IF k = 1 THEN Len(H.segments[ps[1]])
    ELSE JointAt(H, ps, k - 1) + Len(H.segments[ps[k]]) - 1

\* the sequence without the places of J
DropAt(R, J) ==
    LET keep == SelectSeq([i \in 1..Len(R) |-> i], LAMBDA i : i \notin J)
    IN  [k \in 1..Len(keep) |-> R[keep[k]]]

\* the coordinates never go back along seg
Ascending(seg, R) ==
    \A i \in 1..(Len(R) - 1) : ~KeyLT(project(seg, R[i + 1]), project(seg, R[i]))

\* the handles ps of H hold seg cut at the points pts and nothing else
CutInto(seg, H, ps, pts) ==
    /\ Chain(H, ps)
    /\ {First(H.segments[ps[k]]) : k \in 2..Len(ps)} = pts
    /\ Ascending(seg, Join(H, ps))
    /\ DropAt(Join(H, ps), {JointAt(H, ps, k) : k \in 1..(Len(ps) - 1)}) = seg

\* handle h and a run of d handles made by this pass
Block(h, a, d) == <<h>> \o [i \in 1..d |-> a + i - 1]

FirstAlong(seg, pts) ==
    CHOOSE p \in pts : \A q \in pts : ~KeyLT(project(seg, q), project(seg, p))

Count(R, c) == Cardinality({i \in 1..Len(R) : R[i] = c})

\* Q is M started at another place
IsRotation(Q, M) ==
    \E r \in 0..(Len(M) - 1) : Q = SubSeq(M, r + 1, Len(M)) \o SubSeq(M, 1, r)

\* the handles ps of H hold the loop seg turned to start and end at the
\* first of pts and cut at the others
LoopCutInto(seg, H, ps, pts) ==
    /\ Chain(H, ps)
    /\ First(H.segments[ps[1]]) = FirstAlong(seg, pts)
    /\ Last(H.segments[ps[Len(ps)]]) = FirstAlong(seg, pts)
    /\ {First(H.segments[ps[k]]) : k \in 1..Len(ps)} = pts
    /\ IsRotation(DropAt(Join(H, ps),
                         {1, Len(Join(H, ps))}
                            \cup {JointAt(H, ps, k) : k \in 1..(Len(ps) - 1)}),
                  SubSeq(seg, 1, Len(seg) - 1))
    /\ Count(Join(H, ps), First(seg)) = 1
    /\ \A k \in 1..Len(ps) :
          First(H.segments[ps[k]]) # First(seg) /\ Last(H.segments[ps[k]]) # First(seg)

\* C24: when endpoints of one tree snap onto a closed boundary segment at d
\* distinct coordinates and the pass completes, the loop is replaced by d
\* segments, the old handle first, that start at the first of the
\* coordinates by arclength and chain back to it; the old coordinates keep
\* their cyclic order, and the old start of the loop is in them once, inside
\* a segment and at no end of one.
C24_LoopTurnedAndSplit ==
    [][TreeSnapped =>
          \A h \in 1..Len(hucs.segments) :
             IsLoop(hucs.segments[h]) /\ SnappedOnto(Snapped, h) # {} =>
                \E a \in (Len(hucs.segments) + 1)..(Len(hucs'.segments) + 1) :
                   /\ a + Cardinality(SnappedOnto(Snapped, h)) - 2 <= Len(hucs'.segments)
                   /\ LoopCutInto(hucs.segments[h], hucs',
                                  Block(h, a, Cardinality(SnappedOnto(Snapped, h)) - 1),
                                  SnappedOnto(Snapped, h))]_vars

(* --------------- snap: the river end moved by Phase 2 ------------------ *)

\* what one stage does to the river when it finds a coordinate: the river
\* before and after, the endpoint and the coordinate
StageMoves(st, H, c, e, n, tol) ==
    IF FirstHit(H, Components(H)[c], EndCoord(st.river, e), tol).h = 0 THEN <<>>
    ELSE <<[old |-> st.river, new |-> Stage(st, H, c, e, n, tol).river, e |-> e,
            p |-> FirstHit(H, Components(H)[c], EndCoord(st.river, e), tol).p]>>

RECURSIVE Moves(_, _, _, _, _)
\* the moves of the river of node n over the components from c on, in order
Moves(st, H, c, n, tol) ==
    IF c > Len(Components(H)) THEN <<>>
    ELSE LET s1 == Stage(st, H, c, 0, n, tol)
             s2 == Stage(s1, H, c, 0 - 1, n, tol)
         IN  StageMoves(st, H, c, 0, n, tol) \o StageMoves(s1, H, c, 0 - 1, n, tol)
             \o Moves(s2, H, c + 1, n, tol)

\* the moves of node n in the pass over the next tree
MovesOf(n) == Moves([river |-> segment[n], to_add |-> <<>>], hucs, 1, n, op.tol[1])

Backwards(s) == [i \in 1..Len(s) |-> s[Len(s) + 1 - i]]

\* the river read from the moved end
FromEnd(s, e) == IF e = 0 THEN s ELSE Backwards(s)

RECURSIVE NotCloserTo(_, _, _)
\* the coordinates of vs that are not closer to p than to q, in order
NotCloserTo(vs, p, q) ==
    IF vs = <<>> THEN <<>>
    ELSE IF D2(vs[1], p) < D2(vs[1], q) THEN NotCloserTo(Tail(vs), p, q)
         ELSE <<vs[1]>> \o NotCloserTo(Tail(vs), p, q)

\* o, read from the moved end, becomes w: p, then the interior vertices
\* that are not closer to p than to the old endpoint, then the other end
DropsTheCloser(o, w, p) ==
    /\ Len(w) >= 2
    /\ w = <<p>> \o NotCloserTo(SubSeq(o, 2, Len(o) - 1), p, o[1]) \o <<o[Len(o)]>>

\* o, read from the moved end, becomes w: the first k coordinates go, each
\* followed by one nearer to p, as many as leave two, and p takes the
\* place of the next
DropsTheRun(o, w, p) ==
    /\ Len(w) >= 2
    /\ \E k \in 0..(Len(o) - 2) :
          /\ w = <<p>> \o SubSeq(o, k + 2, Len(o))
          /\ \A j \in 1..k : D2(p, o[j + 1]) < D2(p, o[j])
          /\ k = Len(o) - 2 \/ ~(D2(p, o[k + 2]) < D2(p, o[k + 1]))

\* the segment of node n after the pass is that of the last of its moves ms
LastMoveStored(n, ms) ==
    IF ms = <<>> THEN segment'[n] = segment[n]
    ELSE segment'[n] = ms[Len(ms)].new

\* C25: when Phase 2 snaps an end of a river node to the boundary point p,
\* the new segment has p as that end, keeps at least two coordinates and its
\* other end, keeps the remaining vertices in order, and drops exactly the
\* interior vertices that are closer to p than to the old endpoint
C25_DropsVerticesCloserToP ==
    [][TreeSnapped =>
          \A n \in Range(preOrder(children, rivers[tree_i])) :
             \A ms \in {MovesOf(n)} :
                /\ LastMoveStored(n, ms)
                /\ \A i \in 1..Len(ms) :
                      DropsTheCloser(FromEnd(ms[i].old, ms[i].e), FromEnd(ms[i].new, ms[i].e), ms[i].p)]_vars

\* C25, amended: the new segment has p as that end, keeps at least two
\* coordinates and its other end, and keeps the remaining vertices in order;
\* the coordinates dropped are the longest run from the old endpoint inwards
\* in which each is followed by a coordinate strictly nearer to p, cut short
\* so that two coordinates remain, and p replaces the coordinate after the run
C25_DropsRunTowardsP ==
    [][TreeSnapped =>
          \A n \in Range(preOrder(children, rivers[tree_i])) :
             \A ms \in {MovesOf(n)} :
                /\ LastMoveStored(n, ms)
                /\ \A i \in 1..Len(ms) :
                      DropsTheRun(FromEnd(ms[i].old, ms[i].e), FromEnd(ms[i].new, ms[i].e), ms[i].p)]_vars

\* a pass of Phase 2 has moved an end of a river and dropped a vertex
C25_Witness ==
    /\ op.name = "snap" /\ pc = "phase2" /\ tree_i = 2
    /\ \E n \in Range(preOrder(children, rivers[1])) :
          /\ Len(segment[n]) < Len(at_phase2.f.segment[n])
          /\ Last(segment[n]) # Last(at_phase2.f.segment[n])
          /\ First(segment[n]) # First(at_phase2.f.segment[n])

(* ------------------- merge: what one call removes ---------------------- *)

RECURSIVE KeptAbove(_, _, _)
\* the nearest ancestor of n in f that is not in gone
KeptAbove(f, gone, n) ==
    IF f.parent[n] \notin gone THEN f.parent[n] ELSE KeptAbove(f, gone, f.parent[n])

\* the segment of n when merge visits it: as in f, with the first coordinate
\* of the nearest remaining ancestor as last coordinate when its parent went
AsVisited(f, gone, n) ==
    IF f.parent[n] \in gone
    THEN SubSeq(f.segment[n], 1, Len(f.segment[n]) - 1) \o <<First(f.segment[KeptAbove(f, gone, n)])>>
    ELSE f.segment[n]

AfterMerge == op.name = "merge" /\ pc = "built"

\* the nodes of the merged tree that the call removed
Merged == NodesOf(pre, pre.rivers[op.tree]) \ NodesOf(cur, rivers[op.tree])

\* the nodes removed are the non-root nodes that were short when visited,
\* and every other node hangs under its nearest remaining ancestor with the
\* segment it had when visited
RemovesShortWhenVisited(root, all, gone, tol) ==
    /\ gone \subseteq all \ {root}
    /\ NodesOf(cur, root) = all \ gone
    /\ segment[root] = pre.segment[root]
    /\ \A n \in all \ {root} :
          /\ n \in gone <=> SegLength(AsVisited(pre, gone, n)) < tol
          /\ n \notin gone =>
                /\ parent[n] = KeptAbove(pre, gone, n)
                /\ segment[n] = AsVisited(pre, gone, n)

\* C26: merge(tol) removes every non-root node that is shorter than tol when
\* it is visited in pre-order and hangs its children under the removed node's
\* parent, their last coordinate replaced by that parent's first; no child
\* of a removed node is lost, and a run of consecutive short reaches is
\* removed completely by the one call
C26_RunOfShortReachesRemoved ==
    AfterMerge =>
        /\ RemovesShortWhenVisited(rivers[op.tree], NodesOf(pre, pre.rivers[op.tree]), Merged, op.tol[1])
        /\ \A n \in NodesOf(pre, pre.rivers[op.tree]) \ {rivers[op.tree]} :
              (SegLength(pre.segment[n]) < op.tol[1] /\ pre.parent[n] \in Merged) => n \in Merged

\* C26, amended: merge(tol) removes exactly the non-root nodes shorter than
\* tol when visited in pre-order, that is with the last coordinate they have
\* after the nodes above them were removed; each remaining node hangs under
\* its nearest remaining ancestor and ends at that ancestor's first
\* coordinate when its parent was removed; no child of a removed node is lost
C26_ShortWhenVisitedRemoved ==
    AfterMerge =>
        RemovesShortWhenVisited(rivers[op.tree], NodesOf(pre, pre.rivers[op.tree]), Merged, op.tol[1])

\* a merge has removed a reach and kept its child, which was short before
\* the call and is not after it
C26_Witness ==
    /\ AfterMerge
    /\ \E n \in NodesOf(cur, rivers[op.tree]) :
          /\ pre.parent[n] \in Merged
          /\ SegLength(pre.segment[n]) < op.tol[1]
          /\ ~(SegLength(segment[n]) < op.tol[1])

(* ------------------- prune: what one call removes ---------------------- *)

AfterPrune == op.name = "prune" /\ pc = "built"

\* the nodes of the pruned tree when the call started
Before == NodesOf(pre, pre.rivers[op.tree])

\* the nodes of the pruned tree after the call
After == NodesOf(cur, rivers[op.tree])

Candidates(j) == StartsNear(j, op.tol[1])

\* the direction of the last edge of reach j
EndTangent(j) ==
    <<reaches[j][Len(reaches[j])][1] - reaches[j][Len(reaches[j]) - 1][1],
      reaches[j][Len(reaches[j])][2] - reaches[j][Len(reaches[j]) - 1][2]>>

\* the nodes that list j among their children, once for each listing
ParentsOf(j) ==
    {<<p, k>> \in (1..Len(children)) \X (1..MaxReaches) :
        k <= Len(children[p]) /\ children[p][k] = j}

\* C28: when the end of a segment s matches more than one segment start
\* within tol, s is the child of exactly one candidate, one whose first-edge
\* unit tangent has the largest dot product with the last-edge unit tangent
\* of s, the first such in candidate order on an exact tie; s is not a root
\* and has no second parent
C28_ChildOfTheBestAlignedCandidate ==
    AfterBuild =>
        \A j \in 1..Len(reaches) :
            Cardinality(Candidates(j)) > 1 =>
                /\ parent[j] \in Candidates(j)
                /\ \A c \in Candidates(j) : ~DotGT(reaches, EndTangent(j), c, parent[j])
                /\ \A c \in Candidates(j) :
                      c < parent[j] => DotGT(reaches, EndTangent(j), parent[j], c)
                /\ j \notin Range(rivers)
                /\ \E k \in 1..MaxReaches : ParentsOf(j) = {<<parent[j], k>>}

\* a reach with candidates other than itself was given to the better
\* aligned one, which is not the first of them
C28_Witness ==
    /\ AfterBuild
    /\ \E j \in 1..Len(reaches) :
          /\ j \notin Candidates(j)
          /\ Cardinality(Candidates(j)) > 1
          /\ \E c \in Candidates(j) : c < parent[j]

(* --------------- cleanup: prune skipped after merge -------------------- *)

\* the body of a cleanup loop that runs prune(tol) after merge(tol)
MergeThenPrune(o, t, tol) ==
    IF o.raised \/ merge(o.f, t, tol).raised THEN merge(o.f, t, tol)
    ELSE Outcome(prune(merge(o.f, t, tol).f, t, tol), FALSE)

RECURSIVE MergeThenPruneTrees(_, _, _)
MergeThenPruneTrees(o, ts, tol) ==
    IF ts = <<>> \/ o.raised THEN o
    ELSE MergeThenPruneTrees(MergeThenPrune(o, ts[1], tol), Tail(ts), tol)

\* the trees of the last call after the simplify stage of cleanup
Simplified ==
    IF op.tol[1] # None THEN SimplifyTrees(pre, pre.rivers, op.tol[1]) ELSE pre

\* C29: after merge(tol) on a tree whose root is at least tol long, no
\* remaining non-root node, leaf or interior, is shorter than tol; and a
\* cleanup with merge_tol equal to prune_tol, which skips prune, leaves the
\* trees that prune(prune_tol) after merge(merge_tol) on each tree would
C29_NoShortReachAfterMerge ==
    /\ (op.name = "merge" /\ ~(SegLength(pre.segment[pre.rivers[op.tree]]) < op.tol[1])) =>
          /\ pc = "built"
          /\ \A n \in NodesOf(cur, rivers[op.tree]) \ {rivers[op.tree]} :
                ~(SegLength(segment[n]) < op.tol[1])
    /\ (op.name = "cleanup" /\ op.tol[2] = op.tol[3] /\ op.tol[3] # None) =>
          Outcome(cur, pc = "raised")
             = MergeThenPruneTrees(Outcome(Simplified, FALSE), pre.rivers, op.tol[3])

\* a cleanup with equal tolerances has removed a short reach from a tree
\* with a long root and kept a reach under that root
C29_Witness ==
    /\ op.name = "cleanup" /\ pc = "built"
    /\ op.tol[2] = op.tol[3] /\ op.tol[3] # None
    /\ \E i \in 1..Len(rivers) :
          /\ ~(SegLength(pre.segment[rivers[i]]) < op.tol[3])
          /\ NodesOf(cur, rivers[i]) # NodesOf(pre, rivers[i])
          /\ children[rivers[i]] # <<>>

(* --------------- snap: the junctions moved by Phase 2 ------------------ *)

\* snap_endpoints is about to run on the next tree
TreePass == pc = "phase2" /\ op.name = "snap" /\ tree_i <= Len(rivers)

\* C30: Phase 2 keeps a tree consistent: if every non-root node's last
\* coordinate is its parent's first coordinate before snap_endpoints(tree,
\* hucs, tol), the same holds after it, since a junction within tol of a
\* boundary segment moves as one: the parent's first coordinate and every
\* child's last coordinate go to the same point
C30_Phase2KeepsTreesConsistent ==
    [][(TreePass /\ is_consistent(cur, rivers[tree_i])) =>
          /\ is_consistent(Forest(segment', parent', children', rivers'), rivers[tree_i])
          /\ parent' = parent /\ children' = children /\ rivers' = rivers]_vars

\* a pass of Phase 2 has moved a junction: a child's last coordinate and its
\* parent's first are where they were not before, and they are equal
C30_Witness ==
    /\ op.name = "snap" /\ pc = "phase2" /\ tree_i = 2
    /\ \E n \in NodesOf(cur, rivers[1]) :
          /\ parent[n] # 0
          /\ Last(segment[n]) # Last(at_phase2.f.segment[n])
          /\ First(segment[parent[n]]) # First(at_phase2.f.segment[parent[n]])
          /\ Last(segment[n]) = First(segment[parent[n]])

====
